---- MODULE Spec2Model ----
(***************************************************************************)
(* Model of the screen assistant: the task orchestrator (TaskProvider) and *)
(* the screen-share store (useScreenShare) it drives.                      *)
(*                                                                         *)
(* JavaScript runs each handler to its next await without interleaving,    *)
(* so one action is one such run: a user call up to its first await, or    *)
(* the continuation of one settled promise or fired timer.  React state    *)
(* is taken as rendered between two runs; a value a closure captured at an *)
(* earlier render (hasExceededMaxSteps inside sendFollowUpMessage) is kept *)
(* in the record of the operation that captured it.                        *)
(***************************************************************************)
EXTENDS Integers, Sequences, FiniteSets, TLC

\* ---------------------------------------------------------------- constants
MAX_STEPS == 150

\* ------------------------------------------------------------------- bounds
\* The behaviours start GenWindow generations short of MAX_STEPS, and the
\* user asks for new generations only from there on.
GenWindow == 2
\* Generation cycles that may be in flight at once.
MaxCycles == 2
\* Follow-up questions the user asks while earlier ones are still in
\* flight or in the history.
MaxHelps == 2
\* Frames the change-detection loop hands to onChange.
MaxDeliveries == 3
\* Detection videos (loop instances) that may exist at once.
MaxLoops == 2
\* The size of the shared screen and of its video, and of the companion
\* window, in pixels.
VideoWidth == 40
VideoHeight == 20
PipSize == 10

VARIABLES
    \* --- TaskProvider (src/app/providers/AnalyticsProvider.tsx:349-365)
    tasks,                  \* tasksRef.current / tasks
    totalTaskCount,
    totalTaskGeneration,
    isLoading,
    isLoadingFollowUp,
    isLoadingPreviewImage,
    autoCompleteTriggered,
    lastScreenshot,         \* lastScreenshotRef.current
    pendingFollowUp,        \* pendingFollowUpRef.current
    isTriggering,           \* isTriggeringRef.current
    changeDetectionStarted, \* changeDetectionStartedRef.current
    isChecking,             \* isCheckingStepRef.current
    pendingCheckImage,      \* pendingCheckImageRef.current, 0 is null
    maxStepsTracked,        \* calls of trackMaxStepsExceeded
    \* --- operations of the provider that are suspended at an await
    cycles,                 \* triggerGenerateTaskDescription
    checks,                 \* processScreenChange
    helps,                  \* sendFollowUpMessage
    \* --- useScreenShare (src/hooks/screenshare.tsx:56-76)
    stream,
    isSharing,
    changeDetectionEnabled,
    isChangeDetectionPaused,
    isAnalyzingScreenChange,
    previousImageData,
    changeDetectionTimer,   \* 0 is null, k the latest timer of loop k
    temporaryPauseTimer,    \* pending timeouts of the temporary pause
    loops,                  \* the detection videos and their pending timer
    srcObject,              \* the stream each detection video plays
    liveTracks,             \* the streams whose tracks have not ended
    pipDetails,             \* what pipDetailsGetter returns
    screenContent,          \* the colour of the shared screen
    \* --- one call of a helper function of the store (lines 512-624)
    callArgs,               \* its arguments, <<>> when none is examined
    callResult,             \* what it returned, <<>> before it returns
    delivered               \* frames handed to onChange so far

taskVars == <<tasks, totalTaskCount, totalTaskGeneration, isLoading,
              isLoadingFollowUp, isLoadingPreviewImage, autoCompleteTriggered,
              lastScreenshot, pendingFollowUp, isTriggering,
              changeDetectionStarted, isChecking, pendingCheckImage,
              maxStepsTracked, cycles, checks, helps>>

loopVars == <<changeDetectionEnabled, isChangeDetectionPaused,
              previousImageData, changeDetectionTimer, temporaryPauseTimer,
              loops, srcObject>>

sessionVars == <<stream, isSharing, liveTracks, pipDetails, screenContent,
                 callArgs, callResult>>

storeVars == <<stream, changeDetectionEnabled, isChangeDetectionPaused,
               isAnalyzingScreenChange, previousImageData,
               changeDetectionTimer, temporaryPauseTimer, loops, delivered,
               srcObject, liveTracks, pipDetails, screenContent, callArgs,
               callResult, isSharing>>

vars == <<tasks, totalTaskCount, totalTaskGeneration, isLoading,
          isLoadingFollowUp, isLoadingPreviewImage, autoCompleteTriggered,
          lastScreenshot, pendingFollowUp, isTriggering,
          changeDetectionStarted, isChecking, pendingCheckImage,
          maxStepsTracked, cycles, checks, helps,
          stream, changeDetectionEnabled, isChangeDetectionPaused,
          isAnalyzingScreenChange, previousImageData,
          changeDetectionTimer, temporaryPauseTimer, loops, delivered,
          srcObject, liveTracks, pipDetails, screenContent, callArgs,
          callResult, isSharing>>

\* ------------------------------------------------------------------ helpers
Max(a, b) == IF a >= b THEN a ELSE b

Front(s) == SubSeq(s, 1, Len(s) - 1)

RemoveAt(s, i) == SubSeq(s, 1, i - 1) \o SubSeq(s, i + 1, Len(s))

\* ------------------------------------------------------------------ strings
\* A string is a tuple of one-character strings, so that trim, toLowerCase
\* and startsWith are computed and not assumed.
IsSpace(ch) == ch \in {" ", "\n", "\t"}

RECURSIVE TrimStart(_)
TrimStart(s) ==
    IF s # <<>> /\ IsSpace(Head(s)) THEN TrimStart(Tail(s)) ELSE s

RECURSIVE TrimEnd(_)
TrimEnd(s) ==
    IF s # <<>> /\ IsSpace(s[Len(s)]) THEN TrimEnd(Front(s)) ELSE s

Trim(s) == TrimEnd(TrimStart(s))

LowerChar(ch) ==
    CASE ch = "A" -> "a" [] ch = "B" -> "b" [] ch = "C" -> "c"
      [] ch = "D" -> "d" [] ch = "E" -> "e" [] ch = "F" -> "f"
      [] ch = "G" -> "g" [] ch = "H" -> "h" [] ch = "I" -> "i"
      [] ch = "J" -> "j" [] ch = "K" -> "k" [] ch = "L" -> "l"
      [] ch = "M" -> "m" [] ch = "N" -> "n" [] ch = "O" -> "o"
      [] ch = "P" -> "p" [] ch = "Q" -> "q" [] ch = "R" -> "r"
      [] ch = "S" -> "s" [] ch = "T" -> "t" [] ch = "U" -> "u"
      [] ch = "V" -> "v" [] ch = "W" -> "w" [] ch = "X" -> "x"
      [] ch = "Y" -> "y" [] ch = "Z" -> "z" [] OTHER -> ch

ToLowerCase(s) == [i \in 1..Len(s) |-> LowerChar(s[i])]

StartsWith(s, prefix) ==
    /\ Len(prefix) <= Len(s)
    /\ SubSeq(s, 1, Len(prefix)) = prefix

StrDone == <<"d", "o", "n", "e">>

StrDoneDot == <<"d", "o", "n", "e", ".">>

StrWait == <<"w", "a", "i", "t">>

StrWaitDot == <<"w", "a", "i", "t", ".">>

StrScrollDown == <<"s", "c", "r", "o", "l", "l", " ", "d", "o", "w", "n">>

StrScrollUp == <<"s", "c", "r", "o", "l", "l", " ", "u", "p">>

StrHttps == <<"h", "t", "t", "p", "s", ":", "/", "/">>

StrRegenerate == <<"R", "e", "g", "e", "n", "e", "r", "a", "t", "e">>

\* What generateAction may answer (before trim): nothing, blanks, an
\* ordinary instruction, and the terminal marker.
RawActions ==
    { <<>>, <<" ">>, <<"G", "o">>, <<"D", "o", "n", "e">> }

\* An image payload (a data URL): the empty string of an inactive session,
\* or a captured frame.
EmptyUrl == ""

ImageUrl == "img"

IsLink(text) == StartsWith(text, StrHttps)

IsStandardizedInstruction(text) ==
    LET textLower == ToLowerCase(text) IN
    \/ textLower = StrDone
    \/ textLower = StrDoneDot
    \/ textLower = StrWait
    \/ textLower = StrWaitDot
    \/ StartsWith(textLower, StrScrollDown)
    \/ StartsWith(textLower, StrScrollUp)

IsDone(text) ==
    LET textLower == ToLowerCase(text) IN
    textLower = StrDone \/ textLower = StrDoneDot

\* The ceiling test with > for >=.
hasExceededMaxSteps_Strict == totalTaskGeneration > MAX_STEPS

hasExceededMaxSteps == totalTaskGeneration >= MAX_STEPS

\* ------------------------------------------------- screen-share store: data
NoStream == "null"

\* No call of a helper function, and no result yet.
NoCall == <<>>

\* PipDetails, lines 4-11, in screen pixels.  ClosedPip is what the getter
\* reports when there is no companion window; PipAt(x, y) is the window
\* shown with its corner at <<x, y>>.
ClosedPip ==
    [x |-> 0, y |-> 0, width |-> 0, height |-> 0,
     isActive |-> FALSE, isVisible |-> FALSE]

PipAt(x, y) ==
    [x |-> x, y |-> y, width |-> PipSize, height |-> PipSize,
     isActive |-> TRUE, isVisible |-> TRUE]

\* Pixels, as <<r, g, b>>.
Black == <<0, 0, 0>>

White == <<255, 255, 255>>

LiveStream == "stream"

\* ImageData of the analysis canvas: a tuple of <<r, g, b>> pixels (alpha is
\* never read).  NoFrame is previousImageData = null.
NoFrame == <<>>

SourceFrames == { << <<0, 0, 0>> >>, << <<200, 0, 0>> >> }

Threshold == 1

PixelThreshold == 10

Abs(x) == IF x < 0 THEN -x ELSE x

\* A difference of exactly pixelThreshold counts as well.
PixelDiffers_AtLeast(p, q) ==
    \/ Abs(p[1] - q[1]) >= PixelThreshold
    \/ Abs(p[2] - q[2]) >= PixelThreshold
    \/ Abs(p[3] - q[3]) >= PixelThreshold

\* Lines 526-537: one of the three colour channels differs by more than
\* pixelThreshold.
PixelDiffers(p, q) ==
    \/ Abs(p[1] - q[1]) > PixelThreshold
    \/ Abs(p[2] - q[2]) > PixelThreshold
    \/ Abs(p[3] - q[3]) > PixelThreshold

\* Lines 525-538: the loop runs over the first frame's pixels; beyond the
\* end of the second frame it reads undefined, the differences are NaN and
\* no comparison with pixelThreshold is true.
DifferentPixels(imageData1, imageData2) ==
    Cardinality({i \in 1..Len(imageData1) :
                    /\ i <= Len(imageData2)
                    /\ PixelDiffers(imageData1[i], imageData2[i])})

\* A poll without a baseline counts as a change.
ChangeDetected_NoBaseline(previous, current) ==
    \/ previous = NoFrame
    \/ DifferentPixels(previous, current) * 100 >= Threshold * Len(previous)

\* Every comparison with a baseline counts as a change.
ChangeDetected_EveryTick(previous, current) == previous # NoFrame

\* changePercent >= threshold, with changePercent =
\* (differentPixels / totalPixels) * 100, without the division.
ChangeDetected(previous, current) ==
    /\ previous # NoFrame
    /\ DifferentPixels(previous, current) * 100 >= Threshold * Len(previous)

LoopIds == 1..MaxLoops

\* The part of the store the change-detection operations act on.
Store ==
    [enabled |-> changeDetectionEnabled,
     paused  |-> isChangeDetectionPaused,
     prev    |-> previousImageData,
     timer   |-> changeDetectionTimer,
     temp    |-> temporaryPauseTimer,
     loops   |-> loops,
     src     |-> srcObject]

SetStore(S) ==
    /\ changeDetectionEnabled' = S.enabled
    /\ isChangeDetectionPaused' = S.paused
    /\ previousImageData' = S.prev
    /\ changeDetectionTimer' = S.timer
    /\ temporaryPauseTimer' = S.temp
    /\ loops' = S.loops
    /\ srcObject' = S.src

\* A loop's video is "loading" until its metadata is ready; afterwards the
\* loop has one pending timeout: "tick" runs runDetection, "capture" runs the
\* capture window.  "off" is a free slot.
TimerPending(S, k) == k # 0 /\ S.loops[k] \in {"tick", "capture"}

\* stopChangeDetection without the reset of isChangeDetectionPaused.
StopChangeDetection_KeepsPause(S) ==
    [S EXCEPT !.loops = IF TimerPending(S, S.timer)
                        THEN [S.loops EXCEPT ![S.timer] = "off"]
                        ELSE S.loops,
              !.src = IF TimerPending(S, S.timer)
                      THEN [S.src EXCEPT ![S.timer] = NoStream]
                      ELSE S.src,
              !.timer = 0,
              !.prev = NoFrame,
              !.enabled = FALSE]

StopChangeDetection(S) ==
    [S EXCEPT !.loops = IF TimerPending(S, S.timer)
                        THEN [S.loops EXCEPT ![S.timer] = "off"]
                        ELSE S.loops,
              !.src = IF TimerPending(S, S.timer)
                      THEN [S.src EXCEPT ![S.timer] = NoStream]
                      ELSE S.src,
              !.timer = 0,
              !.prev = NoFrame,
              !.enabled = FALSE,
              !.paused = FALSE]

FreeLoops(S) == {k \in LoopIds : S.loops[k] = "off"}

\* A detection video beyond MaxLoops never reports its metadata.
StartChangeDetection(S) ==
    IF stream = NoStream THEN S
    ELSE LET T == StopChangeDetection(S) IN
         [T EXCEPT !.enabled = TRUE,
                   !.paused = FALSE,
                   !.loops = IF FreeLoops(T) = {} THEN T.loops
                             ELSE LET k == CHOOSE x \in FreeLoops(T) :
                                              \A y \in FreeLoops(T) : x <= y
                                  IN [T.loops EXCEPT ![k] = "loading"],
                   !.src = IF FreeLoops(T) = {} THEN T.src
                           ELSE LET k == CHOOSE x \in FreeLoops(T) :
                                            \A y \in FreeLoops(T) : x <= y
                                IN [T.src EXCEPT ![k] = stream]]

PauseChangeDetection(S) ==
    IF ~S.enabled THEN S ELSE [S EXCEPT !.paused = TRUE]

ResumeChangeDetection(S) ==
    IF ~S.enabled THEN S ELSE [S EXCEPT !.paused = FALSE, !.prev = NoFrame]

\* pauseChangeDetectionTemporarily without its timeout.
PauseChangeDetectionTemporarily_NoTimer(S) ==
    IF ~S.enabled THEN S ELSE [S EXCEPT !.paused = TRUE]

\* pauseChangeDetectionTemporarily without the clearTimeout of lines 497-499.
PauseChangeDetectionTemporarily_NoClear(S) ==
    IF ~S.enabled THEN S
    ELSE [S EXCEPT !.paused = TRUE, !.temp = S.temp + 1]

\* Lines 493-508: the pending timeout is cleared and a new one is set.
PauseChangeDetectionTemporarily(S) ==
    IF ~S.enabled THEN S
    ELSE [S EXCEPT !.paused = TRUE,
                   !.temp = (IF S.temp > 0 THEN S.temp - 1 ELSE S.temp) + 1]

\* ------------------------------------------------ orchestrator: generation
\* A TaskHistoryItem.  previewImage <<>> is undefined; a preview is tagged
\* with the instruction its snapshot was rendered for.
NewTaskItem(text) == [text |-> text, previewImage |-> <<>>, followUps |-> <<>>]

HasText(item) == item.text # <<>>

\* One run of triggerGenerateTaskDescription suspended at an await:
\*   pc        the await it is suspended at: "capture" (captureImageFromStream),
\*             "generate" (generateAction), "coordinate" (generateCoordinate),
\*             "snapshot" (createCoordinateSnapshot)
\*   image     captured.scaledImageDataUrl
\*   ctx       followUpContext.followUpMessage, "" when undefined
\*   text      action.trim()
\*   retracted history: this run, or the onRefreshTask that started it,
\*             removed a step from the history
NewCycle(pc, image, ctx, retracted) ==
    [pc |-> pc, image |-> image, ctx |-> ctx, text |-> <<>>,
     retracted |-> retracted]

PutCycle(i, c) == IF i = 0 THEN Append(cycles, c) ELSE [cycles EXCEPT ![i] = c]

MergeFollowUp(ts, pending) ==
    /\ pending # ""
    /\ lastScreenshot # EmptyUrl
    /\ Len(ts) > 0

\* Lines 388-421: from the captured image to the call of generateAction.
\* ts, cnt and pending are tasksRef.current, totalTaskCount and
\* pendingFollowUpRef.current as the run finds them.
AfterCapture(i, ts, cnt, pending, image, popped) ==
    LET merge == MergeFollowUp(ts, pending) IN
    /\ pendingFollowUp' = IF merge THEN "" ELSE pending
    /\ tasks' = IF merge THEN Front(ts) ELSE ts
    /\ totalTaskCount' = IF merge THEN Max(0, cnt - 1) ELSE cnt
    /\ cycles' = PutCycle(i, NewCycle("generate", image,
                                      IF merge THEN pending ELSE "",
                                      popped \/ merge))

\* triggerGenerateTaskDescription without the re-entrancy test of line 377.
TriggerGenerateTaskDescription_NoGuard(ts, cnt, pending, exceeded, popped) ==
    IF exceeded
    THEN /\ tasks' = ts
         /\ totalTaskCount' = cnt
         /\ pendingFollowUp' = pending
         /\ UNCHANGED <<isTriggering, isLoading, cycles>>
    ELSE /\ isTriggering' = TRUE
         /\ isLoading' = TRUE
         /\ IF stream = NoStream
            THEN AfterCapture(0, ts, cnt, pending, EmptyUrl, popped)
            ELSE /\ tasks' = ts
                 /\ totalTaskCount' = cnt
                 /\ pendingFollowUp' = pending
                 /\ cycles' = PutCycle(0, NewCycle("capture", EmptyUrl, "",
                                                   popped))

\* Lines 375-387.  exceeded is hasExceededMaxSteps of the render whose
\* closure runs.  With no stream captureImageFromStream resolves at once
\* (line 168) and the run goes on to generateAction in the same job.
TriggerGenerateTaskDescription(ts, cnt, pending, exceeded, popped) ==
    IF exceeded \/ isTriggering
    THEN /\ tasks' = ts
         /\ totalTaskCount' = cnt
         /\ pendingFollowUp' = pending
         /\ UNCHANGED <<isTriggering, isLoading, cycles>>
    ELSE /\ isTriggering' = TRUE
         /\ isLoading' = TRUE
         /\ IF stream = NoStream
            THEN AfterCapture(0, ts, cnt, pending, EmptyUrl, popped)
            ELSE /\ tasks' = ts
                 /\ totalTaskCount' = cnt
                 /\ pendingFollowUp' = pending
                 /\ cycles' = PutCycle(0, NewCycle("capture", EmptyUrl, "",
                                                   popped))

\* The environment asks for a new cycle only within the bounds.
CycleBudget ==
    /\ Len(cycles) < MaxCycles
    /\ totalTaskGeneration >= MAX_STEPS - GenWindow

MayCall(exceeded) == (~exceeded /\ ~isTriggering) => CycleBudget

\* Lines 481-498: the end of a run that did not throw.
FinishCycle(i, text) ==
    LET startLoop == /\ ~changeDetectionStarted
                     /\ text # <<>>
                     /\ ~IsDone(text)
    IN
    /\ changeDetectionStarted' = (changeDetectionStarted \/ startLoop)
    /\ SetStore(IF startLoop THEN StartChangeDetection(Store) ELSE Store)
    /\ isTriggering' = FALSE
    /\ isLoading' = FALSE
    /\ isLoadingPreviewImage' = FALSE
    /\ cycles' = RemoveAt(cycles, i)

\* The catch without the finally: the guard and the flags stay as they are.
FailCycle_KeepsGuard(i) ==
    /\ UNCHANGED <<isTriggering, isLoading, isLoadingPreviewImage>>
    /\ cycles' = RemoveAt(cycles, i)

\* Lines 492-498: catch and finally.
FailCycle(i) ==
    /\ isTriggering' = FALSE
    /\ isLoading' = FALSE
    /\ isLoadingPreviewImage' = FALSE
    /\ cycles' = RemoveAt(cycles, i)

\* The effect of lines 369-373 after a render that changed the counter.
TrackMaxSteps(generation) ==
    IF generation >= MAX_STEPS /\ generation = MAX_STEPS
    THEN maxStepsTracked + 1
    ELSE maxStepsTracked

OnNextTask ==
    /\ MayCall(hasExceededMaxSteps)
    /\ IF hasExceededMaxSteps
       THEN UNCHANGED <<tasks, totalTaskCount, pendingFollowUp, isTriggering,
                        isLoading, cycles>>
       ELSE TriggerGenerateTaskDescription(tasks, totalTaskCount,
                pendingFollowUp, hasExceededMaxSteps, FALSE)
    /\ UNCHANGED <<totalTaskGeneration, isLoadingFollowUp,
                   isLoadingPreviewImage, autoCompleteTriggered,
                   lastScreenshot, changeDetectionStarted, isChecking,
                   pendingCheckImage, maxStepsTracked, checks, helps>>
    /\ UNCHANGED storeVars

TriggerFirstTask ==
    /\ MayCall(hasExceededMaxSteps)
    /\ IF hasExceededMaxSteps
       THEN UNCHANGED <<tasks, totalTaskCount, pendingFollowUp, isTriggering,
                        isLoading, cycles>>
       ELSE TriggerGenerateTaskDescription(tasks, totalTaskCount,
                pendingFollowUp, hasExceededMaxSteps, FALSE)
    /\ UNCHANGED <<totalTaskGeneration, isLoadingFollowUp,
                   isLoadingPreviewImage, autoCompleteTriggered,
                   lastScreenshot, changeDetectionStarted, isChecking,
                   pendingCheckImage, maxStepsTracked, checks, helps>>
    /\ UNCHANGED storeVars

OnRefreshTask ==
    /\ MayCall(hasExceededMaxSteps)
    /\ IF hasExceededMaxSteps
       THEN UNCHANGED <<tasks, totalTaskCount, pendingFollowUp, isTriggering,
                        isLoading, cycles>>
       ELSE IF Len(tasks) > 0
            THEN TriggerGenerateTaskDescription(Front(tasks),
                     Max(0, totalTaskCount - 1), pendingFollowUp,
                     hasExceededMaxSteps, TRUE)
            ELSE TriggerGenerateTaskDescription(tasks, totalTaskCount,
                     pendingFollowUp, hasExceededMaxSteps, FALSE)
    /\ UNCHANGED <<totalTaskGeneration, isLoadingFollowUp,
                   isLoadingPreviewImage, autoCompleteTriggered,
                   lastScreenshot, changeDetectionStarted, isChecking,
                   pendingCheckImage, maxStepsTracked, checks, helps>>
    /\ UNCHANGED storeVars

\* captureImageFromStream resolves (line 268) ...
CaptureResolve(i) ==
    /\ i \in 1..Len(cycles)
    /\ cycles[i].pc = "capture"
    /\ AfterCapture(i, tasks, totalTaskCount, pendingFollowUp, ImageUrl,
                    cycles[i].retracted)
    /\ UNCHANGED <<totalTaskGeneration, isLoading, isLoadingFollowUp,
                   isLoadingPreviewImage, autoCompleteTriggered,
                   lastScreenshot, isTriggering, changeDetectionStarted,
                   isChecking, pendingCheckImage, maxStepsTracked, checks,
                   helps>>
    /\ UNCHANGED storeVars

\* ... or rejects (lines 219, 274).
CaptureReject(i) ==
    /\ i \in 1..Len(cycles)
    /\ cycles[i].pc = "capture"
    /\ FailCycle(i)
    /\ UNCHANGED <<tasks, totalTaskCount, totalTaskGeneration,
                   isLoadingFollowUp, autoCompleteTriggered, lastScreenshot,
                   pendingFollowUp, changeDetectionStarted, isChecking,
                   pendingCheckImage, maxStepsTracked, checks, helps>>
    /\ UNCHANGED storeVars

\* generateAction resolves with raw: lines 422-458, and 481-498 when no
\* coordinate is asked for.
GenerateResolve(i, raw) ==
    /\ i \in 1..Len(cycles)
    /\ cycles[i].pc = "generate"
    /\ LET text == Trim(raw)
           wantsCoordinate == /\ ~IsLink(text)
                              /\ ~IsStandardizedInstruction(text)
                              /\ text # <<>>
       IN
       /\ lastScreenshot' = cycles[i].image
       /\ totalTaskGeneration' = totalTaskGeneration + 1
       /\ maxStepsTracked' = TrackMaxSteps(totalTaskGeneration + 1)
       /\ totalTaskCount' = totalTaskCount + 1
       /\ tasks' = SelectSeq(Append(tasks, NewTaskItem(text)), HasText)
       /\ IF wantsCoordinate
          THEN /\ cycles' = [cycles EXCEPT ![i].pc = "coordinate",
                                           ![i].text = text]
               /\ isLoading' = FALSE
               /\ isLoadingPreviewImage' = TRUE
               /\ UNCHANGED <<isTriggering, changeDetectionStarted>>
               /\ UNCHANGED loopVars
          ELSE FinishCycle(i, text)
    /\ UNCHANGED <<isLoadingFollowUp, autoCompleteTriggered, pendingFollowUp,
                   isChecking, pendingCheckImage, checks, helps>>
    /\ UNCHANGED <<sessionVars, isAnalyzingScreenChange, delivered>>

GenerateReject(i) ==
    /\ i \in 1..Len(cycles)
    /\ cycles[i].pc = "generate"
    /\ FailCycle(i)
    /\ UNCHANGED <<tasks, totalTaskCount, totalTaskGeneration,
                   isLoadingFollowUp, autoCompleteTriggered, lastScreenshot,
                   pendingFollowUp, changeDetectionStarted, isChecking,
                   pendingCheckImage, maxStepsTracked, checks, helps>>
    /\ UNCHANGED storeVars

\* What generateCoordinate may answer.
RawCoordinates ==
    { <<"1", "2", ",", " ", "-", "3">>, <<"N", "o", "n", "e">>, <<>> }

IsDigit(ch) == ch \in {"0", "1", "2", "3", "4", "5", "6", "7", "8", "9"}

\* -?\d+
IsSignedNumber(s) ==
    LET digits == IF s # <<>> /\ Head(s) = "-" THEN Tail(s) ELSE s IN
    /\ digits # <<>>
    /\ \A i \in 1..Len(digits) : IsDigit(digits[i])

\* /^-?\d+,\s*-?\d+$/
MatchesCoordinatePattern(s) ==
    \E j \in 1..Len(s) :
        /\ s[j] = ","
        /\ IsSignedNumber(SubSeq(s, 1, j - 1))
        /\ IsSignedNumber(TrimStart(SubSeq(s, j + 1, Len(s))))

\* generateCoordinate resolves: lines 458-466, and 481-498 when the answer is
\* no coordinate pair.
CoordinateResolve(i, coordinates) ==
    /\ i \in 1..Len(cycles)
    /\ cycles[i].pc = "coordinate"
    /\ IF coordinates # <<>> /\ MatchesCoordinatePattern(Trim(coordinates))
       THEN /\ cycles' = [cycles EXCEPT ![i].pc = "snapshot"]
            /\ UNCHANGED <<isTriggering, isLoading, isLoadingPreviewImage,
                           changeDetectionStarted>>
            /\ UNCHANGED loopVars
       ELSE FinishCycle(i, cycles[i].text)
    /\ UNCHANGED <<tasks, totalTaskCount, totalTaskGeneration,
                   isLoadingFollowUp, autoCompleteTriggered, lastScreenshot,
                   pendingFollowUp, isChecking, pendingCheckImage,
                   maxStepsTracked, checks, helps>>
    /\ UNCHANGED <<sessionVars, isAnalyzingScreenChange, delivered>>

CoordinateReject(i) ==
    /\ i \in 1..Len(cycles)
    /\ cycles[i].pc = "coordinate"
    /\ FailCycle(i)
    /\ UNCHANGED <<tasks, totalTaskCount, totalTaskGeneration,
                   isLoadingFollowUp, autoCompleteTriggered, lastScreenshot,
                   pendingFollowUp, changeDetectionStarted, isChecking,
                   pendingCheckImage, maxStepsTracked, checks, helps>>
    /\ UNCHANGED storeVars

\* Lines 468-477: the preview goes to whatever step is last now.
AttachPreview(ts, preview) ==
    IF Len(ts) > 0
    THEN [ts EXCEPT ![Len(ts)].previewImage = preview]
    ELSE ts

\* createCoordinateSnapshot resolves, with an image or with none.
SnapshotResolve(i, generated) ==
    /\ i \in 1..Len(cycles)
    /\ cycles[i].pc = "snapshot"
    /\ tasks' = IF generated THEN AttachPreview(tasks, cycles[i].text)
                ELSE tasks
    /\ FinishCycle(i, cycles[i].text)
    /\ UNCHANGED <<totalTaskCount, totalTaskGeneration, isLoadingFollowUp,
                   autoCompleteTriggered, lastScreenshot, pendingFollowUp,
                   isChecking, pendingCheckImage, maxStepsTracked, checks,
                   helps>>
    /\ UNCHANGED <<sessionVars, isAnalyzingScreenChange, delivered>>

SnapshotReject(i) ==
    /\ i \in 1..Len(cycles)
    /\ cycles[i].pc = "snapshot"
    /\ FailCycle(i)
    /\ UNCHANGED <<tasks, totalTaskCount, totalTaskGeneration,
                   isLoadingFollowUp, autoCompleteTriggered, lastScreenshot,
                   pendingFollowUp, changeDetectionStarted, isChecking,
                   pendingCheckImage, maxStepsTracked, checks, helps>>
    /\ UNCHANGED storeVars

\* ---------------------------------------------- orchestrator: verification
\* One run of processScreenChange suspended at checkStepCompletion:
\*   image     the frame under verification (its delivery number)
\*   task      the instruction it verifies
NewCheck(image, task) == [image |-> image, task |-> task]

CurrentTaskText == IF Len(tasks) > 0 THEN tasks[Len(tasks)].text ELSE <<>>

\* Lines 510-546.  rest are the runs still suspended, checking the value of
\* isCheckingStepRef on entry.
ProcessScreenChange(image, rest, checking) ==
    IF CurrentTaskText = <<>> \/ isTriggering \/ IsDone(CurrentTaskText)
    THEN /\ isAnalyzingScreenChange' = FALSE
         /\ isChecking' = checking
         /\ checks' = rest
    ELSE IF lastScreenshot = EmptyUrl
         THEN /\ isChecking' = FALSE
              /\ isAnalyzingScreenChange' = FALSE
              /\ checks' = rest
         ELSE /\ isChecking' = TRUE
              /\ checks' = Append(rest, NewCheck(image, CurrentTaskText))
              /\ UNCHANGED isAnalyzingScreenChange

\* Lines 501-508.
HandleScreenChange(image) ==
    IF isChecking
    THEN /\ pendingCheckImage' = image
         /\ UNCHANGED <<isChecking, checks, isAnalyzingScreenChange>>
    ELSE /\ ProcessScreenChange(image, checks, isChecking)
         /\ UNCHANGED pendingCheckImage

\* checkStepCompletion resolves: lines 548-560.
CheckResolve(i, isCompleted) ==
    /\ i \in 1..Len(checks)
    /\ pendingCheckImage' = 0
    /\ IF isCompleted
       THEN /\ isChecking' = FALSE
            /\ isAnalyzingScreenChange' = FALSE
            /\ autoCompleteTriggered' = autoCompleteTriggered + 1
            /\ checks' = RemoveAt(checks, i)
       ELSE /\ UNCHANGED autoCompleteTriggered
            /\ IF pendingCheckImage # 0
               THEN ProcessScreenChange(pendingCheckImage,
                                        RemoveAt(checks, i), FALSE)
               ELSE /\ isChecking' = FALSE
                    /\ isAnalyzingScreenChange' = FALSE
                    /\ checks' = RemoveAt(checks, i)
    /\ UNCHANGED <<tasks, totalTaskCount, totalTaskGeneration, isLoading,
                   isLoadingFollowUp, isLoadingPreviewImage, lastScreenshot,
                   pendingFollowUp, isTriggering, changeDetectionStarted,
                   maxStepsTracked, cycles, helps>>
    /\ UNCHANGED <<sessionVars, delivered>>
    /\ UNCHANGED loopVars

\* checkStepCompletion rejects: lines 561-565.
CheckReject(i) ==
    /\ i \in 1..Len(checks)
    /\ isChecking' = FALSE
    /\ isAnalyzingScreenChange' = FALSE
    /\ checks' = RemoveAt(checks, i)
    /\ UNCHANGED <<tasks, totalTaskCount, totalTaskGeneration, isLoading,
                   isLoadingFollowUp, isLoadingPreviewImage,
                   autoCompleteTriggered, lastScreenshot, pendingFollowUp,
                   isTriggering, changeDetectionStarted, pendingCheckImage,
                   maxStepsTracked, cycles, helps>>
    /\ UNCHANGED <<sessionVars, delivered>>
    /\ UNCHANGED loopVars

\* ------------------------------------------------ orchestrator: navigation
\* returnToTask without the ceiling test of line 590.
ReturnToTask_AtCeiling(taskIndex) ==
    IF taskIndex < 0 \/ taskIndex >= Len(tasks)
    THEN UNCHANGED vars
    ELSE /\ isTriggering' = FALSE
         /\ isChecking' = FALSE
         /\ pendingCheckImage' = 0
         /\ isLoading' = FALSE
         /\ isLoadingPreviewImage' = FALSE
         /\ isAnalyzingScreenChange' = FALSE
         /\ SetStore(PauseChangeDetectionTemporarily(Store))
         /\ tasks' = SubSeq(tasks, 1, taskIndex + 1)
         /\ totalTaskCount' = taskIndex + 1
         /\ UNCHANGED <<totalTaskGeneration, isLoadingFollowUp,
                        autoCompleteTriggered, lastScreenshot,
                        pendingFollowUp, changeDetectionStarted,
                        maxStepsTracked, cycles, checks, helps, sessionVars,
                        delivered>>

\* returnToTask rewinding the generation count with the history.
ReturnToTask_Rewinding(taskIndex) ==
    IF hasExceededMaxSteps \/ taskIndex < 0 \/ taskIndex >= Len(tasks)
    THEN UNCHANGED vars
    ELSE /\ isTriggering' = FALSE
         /\ isChecking' = FALSE
         /\ pendingCheckImage' = 0
         /\ isLoading' = FALSE
         /\ isLoadingPreviewImage' = FALSE
         /\ isAnalyzingScreenChange' = FALSE
         /\ SetStore(PauseChangeDetectionTemporarily(Store))
         /\ tasks' = SubSeq(tasks, 1, taskIndex + 1)
         /\ totalTaskCount' = taskIndex + 1
         /\ totalTaskGeneration' = taskIndex + 1
         /\ UNCHANGED <<isLoadingFollowUp, autoCompleteTriggered,
                        lastScreenshot, pendingFollowUp,
                        changeDetectionStarted, maxStepsTracked, cycles,
                        checks, helps, sessionVars, delivered>>

\* Lines 589-606.
ReturnToTask(taskIndex) ==
    IF hasExceededMaxSteps \/ taskIndex < 0 \/ taskIndex >= Len(tasks)
    THEN UNCHANGED vars
    ELSE /\ isTriggering' = FALSE
         /\ isChecking' = FALSE
         /\ pendingCheckImage' = 0
         /\ isLoading' = FALSE
         /\ isLoadingPreviewImage' = FALSE
         /\ isAnalyzingScreenChange' = FALSE
         /\ SetStore(PauseChangeDetectionTemporarily(Store))
         /\ tasks' = SubSeq(tasks, 1, taskIndex + 1)
         /\ totalTaskCount' = taskIndex + 1
         /\ UNCHANGED <<totalTaskGeneration, isLoadingFollowUp,
                        autoCompleteTriggered, lastScreenshot,
                        pendingFollowUp, changeDetectionStarted,
                        maxStepsTracked, cycles, checks, helps, sessionVars,
                        delivered>>

\* reset clearing the auto-advance pulse as well.
Reset_ClearsPulse ==
    /\ SetStore(StopChangeDetection(Store))
    /\ changeDetectionStarted' = FALSE
    /\ isChecking' = FALSE
    /\ pendingCheckImage' = 0
    /\ isTriggering' = FALSE
    /\ tasks' = <<>>
    /\ totalTaskCount' = 0
    /\ totalTaskGeneration' = 0
    /\ maxStepsTracked' = TrackMaxSteps(0)
    /\ isLoading' = FALSE
    /\ isLoadingFollowUp' = FALSE
    /\ isLoadingPreviewImage' = FALSE
    /\ lastScreenshot' = EmptyUrl
    /\ pendingFollowUp' = ""
    /\ autoCompleteTriggered' = 0
    /\ UNCHANGED <<cycles, checks, helps, sessionVars, isAnalyzingScreenChange,
                   delivered>>

\* Lines 727-743.
Reset ==
    /\ SetStore(StopChangeDetection(Store))
    /\ changeDetectionStarted' = FALSE
    /\ isChecking' = FALSE
    /\ pendingCheckImage' = 0
    /\ isTriggering' = FALSE
    /\ tasks' = <<>>
    /\ totalTaskCount' = 0
    /\ totalTaskGeneration' = 0
    /\ maxStepsTracked' = TrackMaxSteps(0)
    /\ isLoading' = FALSE
    /\ isLoadingFollowUp' = FALSE
    /\ isLoadingPreviewImage' = FALSE
    /\ lastScreenshot' = EmptyUrl
    /\ pendingFollowUp' = ""
    /\ UNCHANGED <<autoCompleteTriggered, cycles, checks, helps, sessionVars,
                   isAnalyzingScreenChange, delivered>>

\* ------------------------------------------------- orchestrator: follow-ups
Questions == {"why"}

\* What generateHelpResponse may finally answer, and the accumulated text it
\* may stream on the way (each a prefix of an answer).
HelpAnswers ==
    { <<"O", "k">>, StrRegenerate, StrRegenerate \o <<"\n">> }

StreamMessages ==
    { <<"O">>, <<"O", "k">>, <<"R", "e", "g">>, StrRegenerate \o <<"\n">> }

\* One run of sendFollowUpMessage suspended at an await:
\*   pc        "capture" (captureImageFromStream) or "stream"
\*             (generateHelpResponse)
\*   question, hasAddedFollowUp, isRegenerating   its locals
\*   exceeded  hasExceededMaxSteps of the render whose closure this run is
\*   sent      the text streamed so far
NewHelp(pc, question) ==
    [pc |-> pc, question |-> question, hasAddedFollowUp |-> FALSE,
     isRegenerating |-> FALSE, exceeded |-> hasExceededMaxSteps,
     sent |-> <<>>]

\* Lines 608-618.
AddFollowUpToCurrentTask(ts, followUp) ==
    IF Len(ts) > 0
    THEN [ts EXCEPT ![Len(ts)].followUps = Append(@, followUp)]
    ELSE ts

\* Lines 620-638.
UpdateCurrentFollowUpAnswer(ts, answer) ==
    IF Len(ts) > 0 /\ Len(ts[Len(ts)].followUps) > 0
    THEN [ts EXCEPT ![Len(ts)].followUps[Len(ts[Len(ts)].followUps)].answer =
                        answer]
    ELSE ts

\* Lines 640-653.
RemoveLastFollowUpFromCurrentTask(ts) ==
    IF Len(ts) > 0 /\ Len(ts[Len(ts)].followUps) > 0
    THEN [ts EXCEPT ![Len(ts)].followUps = Front(@)]
    ELSE ts

RECURSIVE FollowUpCount(_)
FollowUpCount(ts) ==
    IF ts = <<>> THEN 0
    ELSE Len(Head(ts).followUps) + FollowUpCount(Tail(ts))

\* Lines 655-677: up to the first await that suspends.
SendFollowUpMessage(question) ==
    /\ Len(helps) + FollowUpCount(tasks) < MaxHelps
    /\ IF question = ""
       THEN UNCHANGED <<isLoadingFollowUp, helps>>
       ELSE /\ isLoadingFollowUp' = TRUE
            /\ helps' = Append(helps,
                   NewHelp(IF stream = NoStream THEN "stream" ELSE "capture",
                           question))
    /\ UNCHANGED <<tasks, totalTaskCount, totalTaskGeneration, isLoading,
                   isLoadingPreviewImage, autoCompleteTriggered,
                   lastScreenshot, pendingFollowUp, isTriggering,
                   changeDetectionStarted, isChecking, pendingCheckImage,
                   maxStepsTracked, cycles, checks>>
    /\ UNCHANGED storeVars

HelpCaptureResolve(j) ==
    /\ j \in 1..Len(helps)
    /\ helps[j].pc = "capture"
    /\ helps' = [helps EXCEPT ![j].pc = "stream"]
    /\ UNCHANGED <<tasks, totalTaskCount, totalTaskGeneration, isLoading,
                   isLoadingFollowUp, isLoadingPreviewImage,
                   autoCompleteTriggered, lastScreenshot, pendingFollowUp,
                   isTriggering, changeDetectionStarted, isChecking,
                   pendingCheckImage, maxStepsTracked, cycles, checks>>
    /\ UNCHANGED storeVars

\* The streaming callback, lines 678-700.
OnStreamedMessage(j, streamedMessage) ==
    /\ j \in 1..Len(helps)
    /\ helps[j].pc = "stream"
    /\ StartsWith(streamedMessage, helps[j].sent)
    /\ streamedMessage # helps[j].sent
    /\ LET h == [helps[j] EXCEPT !.sent = streamedMessage] IN
       IF h.isRegenerating \/ StartsWith(StrRegenerate, streamedMessage)
       THEN /\ helps' = [helps EXCEPT ![j] = h]
            /\ UNCHANGED tasks
       ELSE IF Trim(streamedMessage) = StrRegenerate
            THEN /\ helps' = [helps EXCEPT ![j] =
                        [h EXCEPT !.isRegenerating = TRUE,
                                  !.hasAddedFollowUp = FALSE]]
                 /\ tasks' = IF h.hasAddedFollowUp
                             THEN RemoveLastFollowUpFromCurrentTask(tasks)
                             ELSE tasks
            ELSE /\ helps' = [helps EXCEPT ![j] =
                        [h EXCEPT !.hasAddedFollowUp = TRUE]]
                 /\ tasks' = IF ~h.hasAddedFollowUp
                             THEN AddFollowUpToCurrentTask(tasks,
                                      [question |-> h.question,
                                       answer |-> streamedMessage])
                             ELSE UpdateCurrentFollowUpAnswer(tasks,
                                                              streamedMessage)
    /\ UNCHANGED <<totalTaskCount, totalTaskGeneration, isLoading,
                   isLoadingFollowUp, isLoadingPreviewImage,
                   autoCompleteTriggered, lastScreenshot, pendingFollowUp,
                   isTriggering, changeDetectionStarted, isChecking,
                   pendingCheckImage, maxStepsTracked, cycles, checks>>
    /\ UNCHANGED storeVars

\* generateHelpResponse resolves with text: lines 703-716 and 724.  The
\* retry runs the triggerGenerateTaskDescription of this run's own render.
\* cycles is read after helps' is fixed, so the run is dropped first.
HelpResolve(j, text) ==
    /\ j \in 1..Len(helps)
    /\ helps[j].pc = "stream"
    /\ StartsWith(text, helps[j].sent)
    /\ helps' = RemoveAt(helps, j)
    /\ isLoadingFollowUp' = FALSE
    /\ IF Trim(text) = StrRegenerate
       THEN /\ MayCall(helps[j].exceeded)
            /\ TriggerGenerateTaskDescription(
                   IF helps[j].hasAddedFollowUp
                   THEN RemoveLastFollowUpFromCurrentTask(tasks)
                   ELSE tasks,
                   totalTaskCount, helps[j].question, helps[j].exceeded,
                   FALSE)
       ELSE /\ tasks' = IF ~helps[j].hasAddedFollowUp
                        THEN AddFollowUpToCurrentTask(tasks,
                                 [question |-> helps[j].question,
                                  answer |-> text])
                        ELSE tasks
            /\ UNCHANGED <<totalTaskCount, pendingFollowUp, isTriggering,
                           isLoading, cycles>>
    /\ UNCHANGED <<totalTaskGeneration, isLoadingPreviewImage,
                   autoCompleteTriggered, lastScreenshot,
                   changeDetectionStarted, isChecking, pendingCheckImage,
                   maxStepsTracked, checks>>
    /\ UNCHANGED storeVars

\* The capture or generateHelpResponse rejects: lines 717-724.
HelpReject(j) ==
    /\ j \in 1..Len(helps)
    /\ helps' = RemoveAt(helps, j)
    /\ isLoadingFollowUp' = FALSE
    /\ tasks' = IF helps[j].hasAddedFollowUp
                THEN RemoveLastFollowUpFromCurrentTask(tasks)
                ELSE tasks
    /\ UNCHANGED <<totalTaskCount, totalTaskGeneration, isLoading,
                   isLoadingPreviewImage, autoCompleteTriggered,
                   lastScreenshot, pendingFollowUp, isTriggering,
                   changeDetectionStarted, isChecking, pendingCheckImage,
                   maxStepsTracked, cycles, checks>>
    /\ UNCHANGED storeVars

\* ------------------------------------------------ screen-share store: steps
\* Lines 125-142.
StartSharing ==
    /\ stream = NoStream
    /\ stream' = LiveStream
    /\ isSharing' = TRUE
    /\ liveTracks' = liveTracks \cup {LiveStream}
    /\ UNCHANGED taskVars
    /\ UNCHANGED <<isAnalyzingScreenChange, delivered, pipDetails,
                   screenContent, callArgs, callResult>>
    /\ UNCHANGED loopVars

\* Lines 144-157, called by the user or by the track's "ended" event.
StopSharing ==
    /\ liveTracks' = liveTracks \ {stream}
    /\ SetStore(StopChangeDetection(Store))
    /\ pipDetails' = ClosedPip
    /\ stream' = NoStream
    /\ isSharing' = FALSE
    /\ UNCHANGED <<screenContent, callArgs, callResult>>
    /\ UNCHANGED taskVars
    /\ UNCHANGED <<isAnalyzingScreenChange, delivered>>

\* video.onloadedmetadata, lines 305-306 and 460.
VideoLoaded(k) ==
    /\ loops[k] = "loading"
    /\ loops' = [loops EXCEPT ![k] = "tick"]
    /\ changeDetectionTimer' = k
    /\ UNCHANGED taskVars
    /\ UNCHANGED <<sessionVars, srcObject, changeDetectionEnabled, isChangeDetectionPaused,
                   isAnalyzingScreenChange, previousImageData,
                   temporaryPauseTimer, delivered>>

CapturesPending == Cardinality({k \in LoopIds : loops[k] = "capture"})

\* runDetection, lines 308-357 and 455-456; current is the masked analysis
\* frame it samples.
RunDetection(k, current) ==
    /\ loops[k] = "tick"
    /\ IF ~changeDetectionEnabled
       THEN /\ loops' = [loops EXCEPT ![k] = "off"]
            /\ srcObject' = [srcObject EXCEPT ![k] = NoStream]
            /\ UNCHANGED <<changeDetectionTimer, previousImageData,
                           isAnalyzingScreenChange>>
       ELSE IF isChangeDetectionPaused
            THEN /\ changeDetectionTimer' = k
                 /\ UNCHANGED <<loops, srcObject, previousImageData,
                                isAnalyzingScreenChange>>
            ELSE IF ChangeDetected(previousImageData, current)
                 THEN /\ delivered + CapturesPending < MaxDeliveries
                      /\ isAnalyzingScreenChange' = TRUE
                      /\ loops' = [loops EXCEPT ![k] = "capture"]
                      /\ changeDetectionTimer' = k
                      /\ UNCHANGED <<previousImageData, srcObject>>
                 ELSE /\ previousImageData' = current
                      /\ changeDetectionTimer' = k
                      /\ UNCHANGED <<loops, srcObject,
                                     isAnalyzingScreenChange>>
    /\ UNCHANGED <<tasks, totalTaskCount, totalTaskGeneration, isLoading,
                   isLoadingFollowUp, isLoadingPreviewImage,
                   autoCompleteTriggered, lastScreenshot, pendingFollowUp,
                   isTriggering, changeDetectionStarted, isChecking,
                   pendingCheckImage, maxStepsTracked, cycles, checks, helps>>
    /\ UNCHANGED <<sessionVars, changeDetectionEnabled, isChangeDetectionPaused,
                   temporaryPauseTimer, delivered>>

\* The capture window without the reset of lines 428-446.
CaptureWindow_NoReset(k, baseline) ==
    /\ loops[k] = "capture"
    /\ HandleScreenChange(delivered + 1)
    /\ delivered' = delivered + 1
    /\ loops' = [loops EXCEPT ![k] = "tick"]
    /\ changeDetectionTimer' = k
    /\ UNCHANGED <<tasks, totalTaskCount, totalTaskGeneration, isLoading,
                   isLoadingFollowUp, isLoadingPreviewImage,
                   autoCompleteTriggered, lastScreenshot, pendingFollowUp,
                   isTriggering, changeDetectionStarted, maxStepsTracked,
                   cycles, helps>>
    /\ UNCHANGED <<sessionVars, srcObject, changeDetectionEnabled, isChangeDetectionPaused,
                   temporaryPauseTimer, previousImageData>>

\* The capture window, lines 359-450; baseline is the analysis frame the
\* reset samples.  The frame handed over is named by its delivery number.
CaptureWindow(k, baseline) ==
    /\ loops[k] = "capture"
    /\ HandleScreenChange(delivered + 1)
    /\ delivered' = delivered + 1
    /\ previousImageData' = baseline
    /\ loops' = [loops EXCEPT ![k] = "tick"]
    /\ changeDetectionTimer' = k
    /\ UNCHANGED <<tasks, totalTaskCount, totalTaskGeneration, isLoading,
                   isLoadingFollowUp, isLoadingPreviewImage,
                   autoCompleteTriggered, lastScreenshot, pendingFollowUp,
                   isTriggering, changeDetectionStarted, maxStepsTracked,
                   cycles, helps>>
    /\ UNCHANGED <<sessionVars, srcObject, changeDetectionEnabled, isChangeDetectionPaused,
                   temporaryPauseTimer>>

\* The timeout of pauseChangeDetectionTemporarily, lines 503-507.
TemporaryPauseExpires ==
    /\ temporaryPauseTimer > 0
    /\ isChangeDetectionPaused' = FALSE
    /\ previousImageData' = NoFrame
    /\ temporaryPauseTimer' = temporaryPauseTimer - 1
    /\ UNCHANGED taskVars
    /\ UNCHANGED <<sessionVars, srcObject, changeDetectionEnabled, isAnalyzingScreenChange,
                   changeDetectionTimer, loops, delivered>>

\* --------------------------------------------------------- specification
\* The provider and the store as constructed (lines 349-365 of the provider,
\* 57-70 of the store), except that the goal has already used
\* MAX_STEPS - GenWindow generations and the user has cleared the history
\* again: with the screen not shared, every instruction generated so far
\* was "Done" (so the loop was never started and lastScreenshot is still
\* empty), each was retracted by onRefreshTask, and the generateAction of
\* the last onRefreshTask rejected.
InitStore ==
    /\ tasks = <<>>
    /\ totalTaskCount = 0
    /\ totalTaskGeneration = MAX_STEPS - GenWindow
    /\ isLoading = FALSE
    /\ isLoadingFollowUp = FALSE
    /\ isLoadingPreviewImage = FALSE
    /\ autoCompleteTriggered = 0
    /\ lastScreenshot = EmptyUrl
    /\ pendingFollowUp = ""
    /\ isTriggering = FALSE
    /\ changeDetectionStarted = FALSE
    /\ isChecking = FALSE
    /\ pendingCheckImage = 0
    /\ maxStepsTracked = 0
    /\ cycles = <<>>
    /\ checks = <<>>
    /\ helps = <<>>
    /\ stream = NoStream
    /\ isSharing = FALSE
    /\ changeDetectionEnabled = FALSE
    /\ isChangeDetectionPaused = FALSE
    /\ isAnalyzingScreenChange = FALSE
    /\ previousImageData = NoFrame
    /\ changeDetectionTimer = 0
    /\ temporaryPauseTimer = 0
    /\ loops = [k \in LoopIds |-> "off"]
    /\ delivered = 0
    /\ srcObject = [k \in LoopIds |-> NoStream]
    /\ liveTracks = {}
    /\ pipDetails = ClosedPip
    /\ screenContent = White

\* No helper function is being examined.
Init ==
    /\ InitStore
    /\ callArgs = NoCall
    /\ callResult = NoCall

\* The steps of a run of triggerGenerateTaskDescription after its start.
CycleSteps ==
    \/ \E i \in 1..MaxCycles : CaptureResolve(i)
    \/ \E i \in 1..MaxCycles : CaptureReject(i)
    \/ \E i \in 1..MaxCycles, raw \in RawActions : GenerateResolve(i, raw)
    \/ \E i \in 1..MaxCycles : GenerateReject(i)
    \/ \E i \in 1..MaxCycles, xy \in RawCoordinates : CoordinateResolve(i, xy)
    \/ \E i \in 1..MaxCycles : CoordinateReject(i)
    \/ \E i \in 1..MaxCycles, g \in BOOLEAN : SnapshotResolve(i, g)
    \/ \E i \in 1..MaxCycles : SnapshotReject(i)

Generation ==
    \/ OnNextTask
    \/ OnRefreshTask
    \/ TriggerFirstTask
    \/ CycleSteps

Navigation ==
    \/ \E t \in -1..(GenWindow + MaxCycles) : ReturnToTask(t)
    \/ Reset

\* The user asks one question at a time, and not while an answer is shown.
OneQuestion == Len(helps) + FollowUpCount(tasks) = 0

\* A follow-up question and its answer, delivered whole.
FollowUpCalls ==
    \/ \E q \in Questions \cup {""} : OneQuestion /\ SendFollowUpMessage(q)
    \/ \E j \in 1..MaxHelps : HelpCaptureResolve(j)
    \/ \E j \in 1..MaxHelps, a \in HelpAnswers : HelpResolve(j, a)
    \/ \E j \in 1..MaxHelps : HelpReject(j)

\* The answer may also be streamed in chunks.
FollowUps ==
    \/ FollowUpCalls
    \/ \E j \in 1..MaxHelps, m \in StreamMessages : OnStreamedMessage(j, m)

Loop ==
    \/ \E k \in LoopIds : VideoLoaded(k)
    \/ \E k \in LoopIds, f \in SourceFrames : RunDetection(k, f)
    \/ \E k \in LoopIds, f \in SourceFrames : CaptureWindow(k, f)

Verification ==
    \/ \E i \in 1..MaxDeliveries, b \in BOOLEAN : CheckResolve(i, b)
    \/ \E i \in 1..MaxDeliveries : CheckReject(i)

\* The user drives the guide and rewinds or resets it.
Next == Generation \/ Navigation \/ StartSharing

Spec == Init /\ [][Next]_vars

\* The user only presses "next".
NextOnly == OnNextTask \/ CycleSteps \/ StartSharing

SpecNextOnly == Init /\ [][NextOnly]_vars

\* The user drives the guide, asks follow-up questions, rewinds and resets.
NextGuide == Generation \/ FollowUpCalls \/ Navigation \/ StartSharing

SpecGuide == Init /\ [][NextGuide]_vars

\* The guide runs with the Change-Detection Loop verifying each step.
NextLoop == Generation \/ Loop \/ Verification \/ StartSharing

SpecLoop == Init /\ [][NextLoop]_vars

\* The same, and the user rewinds or resets the guide.
NextVerify == NextLoop \/ Navigation \/ TemporaryPauseExpires

SpecVerify == Init /\ [][NextVerify]_vars

----------------------------------------------------------------------------
\* Claims

HistoryVars == <<tasks, totalTaskCount, totalTaskGeneration>>

\* C1 (as the code has it): with onNextTask the only call, a call made while
\* a cycle is in flight changes nothing, at most one cycle is in flight, and
\* a cycle whose generateAction resolves appends exactly one step if the
\* trimmed instruction is not empty and appends none if it is empty; nothing
\* else changes the length of the history.
C1_SingleFlightNext ==
    /\ [](Len(cycles) <= 1)
    /\ [][/\ (OnNextTask /\ isTriggering) => UNCHANGED vars
          /\ \A i \in 1..MaxCycles, raw \in RawActions :
                GenerateResolve(i, raw) =>
                    IF Trim(raw) # <<>>
                    THEN tasks' = Append(tasks, NewTaskItem(Trim(raw)))
                    ELSE tasks' = tasks
          /\ Len(tasks') # Len(tasks) =>
                \E i \in 1..MaxCycles, raw \in RawActions :
                    GenerateResolve(i, raw)]_vars

\* One onNextTask cycle has completed with a non-empty instruction: one step
\* in the history, no cycle left, and the guard released for the next call.
C1_Witness ==
    /\ Len(tasks) = 1
    /\ totalTaskGeneration = MAX_STEPS - GenWindow + 1
    /\ cycles = <<>>
    /\ ~isTriggering

\* C1 as stated: every cycle that completes successfully appends exactly
\* one step.
C1_AsStated ==
    [][\A i \in 1..MaxCycles, raw \in RawActions :
          GenerateResolve(i, raw) => Len(tasks') = Len(tasks) + 1]_vars

\* C2: in every reachable state at most one action-generation cycle and at
\* most one checkStepCompletion verification are in flight.
C2_AtMostOneInFlight == Len(cycles) <= 1 /\ Len(checks) <= 1

UserCall == OnNextTask \/ OnRefreshTask \/ TriggerFirstTask

\* C3: once generationCount has reached 150 a call of onNextTask,
\* onRefreshTask or triggerFirstTask changes nothing; the ceiling flag rises
\* exactly when the max-steps event is reported, the event is reported once
\* per rise, and the flag stays up until reset starts another goal.
C3_CeilingNoOp ==
    [][/\ (totalTaskGeneration >= MAX_STEPS /\ UserCall) => UNCHANGED vars
       /\ (totalTaskGeneration < MAX_STEPS /\ totalTaskGeneration' >= MAX_STEPS)
            <=> (maxStepsTracked' = maxStepsTracked + 1)
       /\ maxStepsTracked' \in {maxStepsTracked, maxStepsTracked + 1}
       /\ (totalTaskGeneration >= MAX_STEPS /\ totalTaskGeneration' < MAX_STEPS)
            => Reset]_vars

\* generationCount has reached the ceiling and the event has been reported.
C3_Witness == totalTaskGeneration = MAX_STEPS /\ maxStepsTracked = 1

\* C4: generationCount never exceeds 150.
C4_NeverExceedsCeiling == totalTaskGeneration <= MAX_STEPS

\* C5: generationCount decreases only when reset starts another goal;
\* onRefreshTask, returnToTask and the follow-up merge leave it as it is;
\* it changes otherwise only by exactly 1, when generateAction resolves, and
\* every resolved generateAction adds exactly 1.
C5_GenerationMonotonic ==
    [][/\ totalTaskGeneration' < totalTaskGeneration => Reset
       /\ totalTaskGeneration' > totalTaskGeneration =>
            /\ totalTaskGeneration' = totalTaskGeneration + 1
            /\ \E i \in 1..MaxCycles, raw \in RawActions :
                   GenerateResolve(i, raw)
       /\ \A i \in 1..MaxCycles, raw \in RawActions :
            GenerateResolve(i, raw) =>
                totalTaskGeneration' = totalTaskGeneration + 1
       /\ (OnRefreshTask \/ \E t \in -1..(GenWindow + MaxCycles) :
                                ReturnToTask(t))
            => totalTaskGeneration' = totalTaskGeneration
       /\ Len(tasks') < Len(tasks) /\ totalTaskGeneration' # 0
            => totalTaskGeneration' = totalTaskGeneration]_vars

\* A follow-up merge has retracted a step after a generation completed: the
\* history is shorter than the number of generations.
C5_Witness ==
    /\ totalTaskGeneration > MAX_STEPS - GenWindow
    /\ \E i \in 1..Len(cycles) : cycles[i].ctx # "" /\ cycles[i].retracted
    /\ Len(tasks) < totalTaskGeneration - (MAX_STEPS - GenWindow)

\* C6: a call of onNextTask, onRefreshTask or triggerFirstTask made while
\* the generation guard is held leaves the step history, the step count and
\* generationCount as they were.
C6_GuardedCallIgnored ==
    [][(isTriggering /\ UserCall) => UNCHANGED HistoryVars]_vars

\* C7: when the frame capture or generateAction of a cycle rejects, the
\* history is what it was before the operation was invoked: the cycle, or
\* the onRefreshTask that started it, has retracted no step.
C7_FailureLeavesHistory ==
    [][\A i \in 1..MaxCycles :
          (CaptureReject(i) \/ GenerateReject(i)) => ~cycles[i].retracted]_vars

\* C8: a generateAction result that arrives after returnToTask or reset has
\* cleared the generation guard appends no step, does not increment
\* generationCount and does not start the Change-Detection Loop.
C8_LateResultDiscarded ==
    [][\A i \in 1..MaxCycles, raw \in RawActions :
          (~isTriggering /\ GenerateResolve(i, raw)) =>
              UNCHANGED <<tasks, totalTaskGeneration,
                          changeDetectionStarted>>]_vars

\* C9: a frame delivered by onChange while a verification is in flight
\* becomes the pending frame and starts no other checkStepCompletion call,
\* and a frame pending during a verification is the most recently delivered
\* one.
C9_PendingSlot ==
    /\ [][(checks # <<>> /\ delivered' = delivered + 1) =>
             (pendingCheckImage' = delivered' /\ checks' = checks)]_vars
    /\ []((checks # <<>> /\ pendingCheckImage # 0) =>
             pendingCheckImage = delivered)

\* C10: a checkStepCompletion that resolves true adds exactly 1 to the
\* auto-advance pulse and leaves the history as it is; the pulse changes in
\* no other step, and so never decreases.
C10_PulseOnlyOnCompletion ==
    [][/\ \A i \in 1..MaxDeliveries :
            CheckResolve(i, TRUE) =>
                /\ autoCompleteTriggered' = autoCompleteTriggered + 1
                /\ UNCHANGED <<tasks, totalTaskCount, totalTaskGeneration>>
       /\ autoCompleteTriggered' # autoCompleteTriggered =>
            /\ autoCompleteTriggered' = autoCompleteTriggered + 1
            /\ \E i \in 1..MaxDeliveries : CheckResolve(i, TRUE)]_vars

\* A verification of the current step has resolved true.
C10_Witness == autoCompleteTriggered = 1 /\ Len(tasks) > 0 /\ checks = <<>>

\* C11: a checkStepCompletion that resolves false with a frame pending
\* empties the slot and starts a verification of that frame at once, the
\* frame being a later one than the frame just verified; and whenever no
\* verification is in flight the pending slot is empty.
C11_RequeuedVerification ==
    /\ [](checks = <<>> => pendingCheckImage = 0)
    /\ [][\A i \in 1..MaxDeliveries :
            (CheckResolve(i, FALSE) /\ pendingCheckImage # 0) =>
                /\ pendingCheckImage' = 0
                /\ Len(checks') = Len(checks)
                /\ checks'[Len(checks')].image = pendingCheckImage
                /\ pendingCheckImage > checks[i].image]_vars

\* A guide in the middle of a goal: MAX_STEPS - GenWindow generations used,
\* two steps in the history (the first with its preview), the screen shared
\* and the Change-Detection Loop polling, nothing in flight.
InitGoing(history, timeouts) ==
    /\ tasks = history
    /\ totalTaskCount = Len(history)
    /\ totalTaskGeneration = MAX_STEPS - GenWindow
    /\ isLoading = FALSE
    /\ isLoadingFollowUp = FALSE
    /\ isLoadingPreviewImage = FALSE
    /\ autoCompleteTriggered = 0
    /\ lastScreenshot = ImageUrl
    /\ pendingFollowUp = ""
    /\ isTriggering = FALSE
    /\ changeDetectionStarted = TRUE
    /\ isChecking = FALSE
    /\ pendingCheckImage = 0
    /\ maxStepsTracked = 0
    /\ cycles = <<>>
    /\ checks = <<>>
    /\ helps = <<>>
    /\ stream = LiveStream
    /\ isSharing = TRUE
    /\ changeDetectionEnabled = TRUE
    /\ isChangeDetectionPaused = FALSE
    /\ isAnalyzingScreenChange = FALSE
    /\ previousImageData = NoFrame
    /\ changeDetectionTimer = 1
    /\ temporaryPauseTimer = timeouts
    /\ loops = [k \in LoopIds |-> IF k = 1 THEN "tick" ELSE "off"]
    /\ delivered = 0
    /\ srcObject = [k \in LoopIds |-> IF k = 1 THEN LiveStream ELSE NoStream]
    /\ liveTracks = {LiveStream}
    /\ pipDetails = ClosedPip
    /\ screenContent = White
    /\ callArgs = NoCall
    /\ callResult = NoCall

InitHistory ==
    InitGoing(<< [NewTaskItem(<<"G", "o">>) EXCEPT
                     !.previewImage = <<"G", "o">>],
                 NewTaskItem(<<"G", "o">>) >>, 0)

\* The guide in the middle of a goal: the user presses "next" when nothing
\* is being generated, asks a follow-up question and rewinds, while the loop
\* polls and verifies; every external call resolves.
Rewinds == \E t \in -1..(GenWindow + MaxCycles) : ReturnToTask(t)

NextRewind ==
    \/ cycles = <<>> /\ OnNextTask
    \/ \E i \in 1..MaxCycles : CaptureResolve(i)
    \/ \E i \in 1..MaxCycles : GenerateResolve(i, <<"G", "o">>)
    \/ \E i \in 1..MaxCycles : CoordinateResolve(i, <<>>)
    \/ \E q \in Questions : OneQuestion /\ SendFollowUpMessage(q)
    \/ \E j \in 1..MaxHelps : HelpCaptureResolve(j)
    \/ \E j \in 1..MaxHelps : HelpResolve(j, <<"O", "k">>)
    \/ \E k \in LoopIds, f \in SourceFrames : RunDetection(k, f)
    \/ \E k \in LoopIds, f \in SourceFrames : CaptureWindow(k, f)
    \/ \E i \in 1..MaxDeliveries, b \in BOOLEAN : CheckResolve(i, b)
    \/ Rewinds
    \/ TemporaryPauseExpires

SpecRewind == InitHistory /\ [][NextRewind]_vars

ValidIndex(t) == 0 <= t /\ t < Len(tasks) /\ ~hasExceededMaxSteps

\* What C12 and its amendment agree on: the history is cut to its first
\* t + 1 steps, both guards are released, the pending slot is emptied, the
\* generating, loadingPreview and analyzingChange flags are cleared, and an
\* enabled loop is paused with the resume timeout armed.
ReturnToTaskEffect(t) ==
    /\ tasks' = SubSeq(tasks, 1, t + 1)
    /\ totalTaskCount' = t + 1
    /\ ~isTriggering' /\ ~isChecking' /\ pendingCheckImage' = 0
    /\ ~isLoading' /\ ~isLoadingPreviewImage' /\ ~isAnalyzingScreenChange'
    /\ changeDetectionEnabled =>
          (isChangeDetectionPaused' /\ temporaryPauseTimer' = 1)

\* C12 (as the code has it): a valid returnToTask(t) has the effect above
\* and leaves the awaitingFollowUp flag as it was; while the timeout is
\* pending the loop stays paused and schedules no capture, and the timeout
\* resumes it.
C12_ReturnToTaskRewinds ==
    /\ [][\A t \in 0..(GenWindow + MaxCycles) :
            (ValidIndex(t) /\ ReturnToTask(t)) =>
                /\ ReturnToTaskEffect(t)
                /\ isLoadingFollowUp' = isLoadingFollowUp]_vars
    /\ [](temporaryPauseTimer > 0 => isChangeDetectionPaused)
    /\ [][isChangeDetectionPaused =>
            \A k \in LoopIds : loops'[k] = "capture" => loops[k] = "capture"]_vars
    /\ [][TemporaryPauseExpires =>
            (~isChangeDetectionPaused' /\ temporaryPauseTimer' = 0)]_vars

\* returnToTask(0) has cut a two-step history to one step while a
\* generation, a verification and a follow-up were in flight: the guards
\* are free, the loop is paused, and the follow-up flag is still up.
C12_Witness ==
    /\ Len(tasks) = 1 /\ totalTaskCount = 1
    /\ cycles # <<>> /\ ~isTriggering
    /\ checks # <<>> /\ ~isChecking
    /\ helps # <<>> /\ isLoadingFollowUp
    /\ isChangeDetectionPaused /\ temporaryPauseTimer = 1

\* C12 as stated: a valid returnToTask(t) clears all four busy flags.
C12_AsStated ==
    [][\A t \in 0..(GenWindow + MaxCycles) :
          (ValidIndex(t) /\ ReturnToTask(t)) =>
              /\ ReturnToTaskEffect(t)
              /\ ~isLoadingFollowUp']_vars

\* C13: returnToTask(t) with t < 0, t >= len(history) or the ceiling
\* exceeded changes nothing.
C13_InvalidReturnNoOp ==
    [][\A t \in -1..(GenWindow + MaxCycles) :
          (~ValidIndex(t) /\ ReturnToTask(t)) => UNCHANGED vars]_vars

\* The ceiling is exceeded with several steps in the history and
\* operations in flight: any returnToTask is refused here.
C13_Witness ==
    /\ hasExceededMaxSteps
    /\ Len(tasks) > 1
    /\ isLoadingFollowUp
    /\ checks # <<>>

\* The guide in the middle of a goal: the user presses "next" or "refresh"
\* only when no generation is in flight and asks follow-up questions, which
\* the help model answers with the Regenerate sentinel or with a plain
\* answer; generateAction always returns an instruction.
NextRefresh ==
    \/ cycles = <<>> /\ OnNextTask
    \/ cycles = <<>> /\ OnRefreshTask
    \/ \E i \in 1..MaxCycles : CaptureResolve(i)
    \/ \E i \in 1..MaxCycles : GenerateResolve(i, <<"G", "o">>)
    \/ \E i \in 1..MaxCycles : GenerateReject(i)
    \/ \E i \in 1..MaxCycles : CoordinateResolve(i, <<>>)
    \/ \E q \in Questions : OneQuestion /\ SendFollowUpMessage(q)
    \/ \E j \in 1..MaxHelps : HelpCaptureResolve(j)
    \/ \E j \in 1..MaxHelps, a \in {StrRegenerate, <<"O", "k">>} :
          HelpResolve(j, a)

SpecRefresh == InitHistory /\ [][NextRefresh]_vars

\* C14: onRefreshTask called while idle, below the ceiling, on a non-empty
\* history removes exactly the last step and starts one cycle; that cycle
\* removes nothing more, and when its generateAction resolves it appends
\* exactly one step after the steps that were left, generationCount
\* growing by exactly 1.
C14_RefreshReplacesLastStep ==
    [][/\ (/\ cycles = <<>> /\ ~isTriggering /\ ~hasExceededMaxSteps
           /\ Len(tasks) > 0
           /\ OnRefreshTask) =>
              /\ tasks' = Front(tasks)
              /\ Len(cycles') = 1
              /\ totalTaskGeneration' = totalTaskGeneration
       /\ \A i \in 1..MaxCycles :
            (CaptureResolve(i) /\ cycles[i].retracted) => tasks' = tasks
       /\ \A i \in 1..MaxCycles :
            (GenerateResolve(i, <<"G", "o">>) /\ cycles[i].retracted) =>
                /\ tasks' = Append(tasks, NewTaskItem(<<"G", "o">>))
                /\ totalTaskGeneration' = totalTaskGeneration + 1]_vars

\* The questions of the FollowUps in a history.
QuestionsIn(ts) ==
    UNION { { ts[n].followUps[f].question : f \in 1..Len(ts[n].followUps) } :
            n \in 1..Len(ts) }

Asked(q) ==
    \/ \E j \in 1..Len(helps) : helps[j].question = q
    \/ q \in QuestionsIn(tasks)

\* The FollowUps of each step of a history that do not answer question q.
OthersOf(ts, q) ==
    [n \in 1..Len(ts) |->
        SelectSeq(ts[n].followUps, LAMBDA f : f.question # q)]

RECURSIVE OwnCount(_, _)
OwnCount(ts, q) ==
    IF ts = <<>> THEN 0
    ELSE Len(SelectSeq(Head(ts).followUps, LAMBDA f : f.question = q))
         + OwnCount(Tail(ts), q)

\* Two different questions, so that a FollowUp names the call that made it.
StreamQuestions == {"why", "how"}

\* The accumulated text the help model streams, and its final answers: a
\* plain answer, the sentinel, and the sentinel after a line break.
StreamChunks ==
    { <<"O">>, <<"O", "k">>, <<"R", "e", "g">>, StrRegenerate, <<"\n">>,
      <<"\n">> \o StrRegenerate }

StreamAnswers == { <<"O", "k">>, StrRegenerate, <<"\n">> \o StrRegenerate }

\* The guide in the middle of a goal: the user presses "next" when nothing
\* is being generated and asks up to MaxHelps different questions, whose
\* answers are streamed.
NextStream ==
    \/ cycles = <<>> /\ OnNextTask
    \/ \E i \in 1..MaxCycles : CaptureResolve(i)
    \/ \E i \in 1..MaxCycles : GenerateResolve(i, <<"G", "o">>)
    \/ \E i \in 1..MaxCycles : CoordinateResolve(i, <<>>)
    \/ \E q \in StreamQuestions : ~Asked(q) /\ SendFollowUpMessage(q)
    \/ \E j \in 1..MaxHelps : HelpCaptureResolve(j)
    \/ \E j \in 1..MaxHelps, m \in StreamChunks : OnStreamedMessage(j, m)
    \/ \E j \in 1..MaxHelps, a \in StreamAnswers : HelpResolve(j, a)
    \/ \E j \in 1..MaxHelps : HelpReject(j)

SpecStream == InitHistory /\ [][NextStream]_vars

\* C15: a streamed partial that is a prefix of "Regenerate" leaves the
\* history as it is; and when the final response is "Regenerate" no
\* FollowUp of this call is left in the history and the question is
\* stashed as the pending follow-up.
C15_SentinelSuppressed ==
    [][\A j \in 1..MaxHelps :
          /\ \A m \in StreamChunks :
                (OnStreamedMessage(j, m) /\ StartsWith(StrRegenerate, m))
                    => tasks' = tasks
          /\ \A a \in StreamAnswers :
                (HelpResolve(j, a) /\ Trim(a) = StrRegenerate) =>
                    /\ helps[j].question \notin QuestionsIn(tasks')
                    /\ pendingFollowUp' = helps[j].question]_vars

\* C17: a sendFollowUpMessage call has at most one FollowUp in the history,
\* and what its stream, its final answer or its failure do to the history
\* leaves the FollowUps of other calls as they are.
C17_OwnFollowUpOnly ==
    [][\A j \in 1..MaxHelps :
          (\/ \E m \in StreamChunks : OnStreamedMessage(j, m)
           \/ \E a \in StreamAnswers : HelpResolve(j, a)
           \/ HelpReject(j)) =>
              /\ OthersOf(tasks', helps[j].question)
                    = OthersOf(tasks, helps[j].question)
              /\ OwnCount(tasks', helps[j].question) <= 1]_vars


\* C16: a final "Regenerate" stashes the question; a cycle that reaches the
\* call of generateAction with a stash, a current step and a last-sent
\* frame passes the stash as revision context, retracts the most recent
\* step and clears the stash; a skipped retry keeps the stash; and a stash
\* leaves the slot only by being merged into a generateAction call, so
\* each stashed follow-up is merged into exactly one call.
C16_StashMergedOnce ==
    [][/\ \A j \in 1..MaxHelps, a \in StreamAnswers :
            (HelpResolve(j, a) /\ Trim(a) = StrRegenerate) =>
                /\ pendingFollowUp' = helps[j].question
                /\ (helps[j].exceeded \/ isTriggering) => cycles' = cycles
       /\ \A i \in 1..MaxCycles :
            (CaptureResolve(i) /\ MergeFollowUp(tasks, pendingFollowUp)) =>
                /\ cycles'[i].ctx = pendingFollowUp
                /\ tasks' = Front(tasks)
                /\ pendingFollowUp' = ""
       /\ (pendingFollowUp # "" /\ pendingFollowUp' # pendingFollowUp) =>
            \E i \in 1..Len(cycles) :
                /\ CaptureResolve(i)
                /\ cycles'[i].ctx = pendingFollowUp]_vars


\* --------------------------------------------------------------- liveness
\* One settling step of cycle i, of verification i and of follow-up j: the
\* awaited capture or external call resolves or rejects.
CycleSettle(i) ==
    \/ CaptureResolve(i)
    \/ CaptureReject(i)
    \/ GenerateResolve(i, <<"G", "o">>)
    \/ GenerateReject(i)
    \/ CoordinateResolve(i, <<>>)
    \/ CoordinateReject(i)

CheckSettle(i) ==
    \/ \E b \in BOOLEAN : CheckResolve(i, b)
    \/ CheckReject(i)

HelpSettle(j) ==
    \/ HelpCaptureResolve(j)
    \/ \E a \in {StrRegenerate, <<"O", "k">>} : HelpResolve(j, a)
    \/ HelpReject(j)

\* The guide in the middle of a goal with the loop running: the user
\* presses "next" or "refresh" or asks a question when no cycle is in
\* flight, rewinds to the first step at any time, and every capture and
\* external call resolves or rejects.
NextSettle ==
    \/ cycles = <<>> /\ helps = <<>> /\ OnNextTask
    \/ cycles = <<>> /\ helps = <<>> /\ OnRefreshTask
    \/ \E i \in 1..MaxCycles : CycleSettle(i)
    \/ \E q \in Questions :
          OneQuestion /\ cycles = <<>> /\ SendFollowUpMessage(q)
    \/ \E j \in 1..MaxHelps : HelpSettle(j)
    \/ \E k \in LoopIds, f \in SourceFrames : RunDetection(k, f)
    \/ \E k \in LoopIds, f \in SourceFrames : CaptureWindow(k, f)
    \/ \E i \in 1..MaxDeliveries : CheckSettle(i)
    \/ ReturnToTask(0)
    \/ TemporaryPauseExpires

\* Every capture and every external call eventually settles, and the timer
\* of a capture window fires.
Settles ==
    /\ \A i \in 1..MaxCycles : WF_vars(CycleSettle(i))
    /\ \A i \in 1..MaxDeliveries : WF_vars(CheckSettle(i))
    /\ \A j \in 1..MaxHelps : WF_vars(HelpSettle(j))
    /\ \A k \in LoopIds :
          WF_vars(\E f \in SourceFrames : CaptureWindow(k, f))

SpecSettle == InitHistory /\ [][NextSettle]_vars /\ Settles

\* C18: when every capture and external call settles, each guard and each
\* busy flag is released again and again (whatever holds it is let go,
\* whether the call resolved or rejected), and an onNextTask or
\* onRefreshTask made below the ceiling while the guard is free starts a
\* cycle.
C18_GuardsReleased ==
    /\ []<>(~isTriggering)
    /\ []<>(~isChecking)
    /\ []<>(~isLoading)
    /\ []<>(~isLoadingPreviewImage)
    /\ []<>(~isAnalyzingScreenChange)
    /\ []<>(~isLoadingFollowUp)
    /\ [][((OnNextTask \/ OnRefreshTask)
             /\ ~isTriggering /\ ~hasExceededMaxSteps) =>
                (isTriggering' /\ Len(cycles') = Len(cycles) + 1)]_vars

\* A cycle that awaits its coordinates and a verification are in flight,
\* with the guards and flags they hold.
C18_Witness ==
    /\ cycles # <<>>
    /\ checks # <<>>
    /\ isTriggering
    /\ isLoadingPreviewImage
    /\ isChecking
    /\ isAnalyzingScreenChange

\* ------------------------------------------------- the loop and its source
\* pauseChangeDetection, resumeChangeDetection and
\* pauseChangeDetectionTemporarily called on the store.
Pause ==
    /\ SetStore(PauseChangeDetection(Store))
    /\ UNCHANGED taskVars
    /\ UNCHANGED <<sessionVars, isAnalyzingScreenChange, delivered>>

Resume ==
    /\ SetStore(ResumeChangeDetection(Store))
    /\ UNCHANGED taskVars
    /\ UNCHANGED <<sessionVars, isAnalyzingScreenChange, delivered>>

PauseTemporarily ==
    /\ SetStore(PauseChangeDetectionTemporarily(Store))
    /\ UNCHANGED taskVars
    /\ UNCHANGED <<sessionVars, isAnalyzingScreenChange, delivered>>

\* The frame the source shows, and the frame inserted into it.
Original == << <<0, 0, 0>> >>

Inserted == << <<200, 0, 0>> >>

\* The user shares a screen that always shows the same frame and goes on
\* with the guide; the first step starts the loop, which is paused and
\* resumed at any time.
NextStill ==
    \/ StartSharing
    \/ cycles = <<>> /\ OnNextTask
    \/ \E i \in 1..MaxCycles : CycleSettle(i)
    \/ \E k \in LoopIds : VideoLoaded(k)
    \/ \E k \in LoopIds : RunDetection(k, Original)
    \/ Pause
    \/ Resume
    \/ PauseTemporarily
    \/ TemporaryPauseExpires

SpecStill == Init /\ [][NextStill]_vars

\* C19: on a source whose frames are all identical no poll detects a
\* change, whatever pause, resume and pauseTemporarily do in between: no
\* capture window is scheduled, the analyzing flag is never set and
\* onChange is never invoked.
C19_IdenticalFramesSilent ==
    [](/\ \A k \in LoopIds : loops[k] # "capture"
       /\ ~isAnalyzingScreenChange
       /\ delivered = 0
       /\ checks = <<>>)

\* The loop has taken a baseline and is paused by pauseTemporarily.
C19_Witness ==
    /\ changeDetectionEnabled
    /\ previousImageData = Original
    /\ isChangeDetectionPaused
    /\ temporaryPauseTimer = 1
    /\ delivered = 0

\* The source shows Original except for one poll, which samples Inserted
\* against a baseline of Original; at the confirmation capture and baseline
\* reset that follow, the source shows either frame, and Original from then
\* on.
NextInsert ==
    \/ cycles = <<>> /\ OnNextTask
    \/ \E i \in 1..MaxCycles : CycleSettle(i)
    \/ \E k \in LoopIds : RunDetection(k, Original)
    \/ \E k \in LoopIds :
          /\ delivered = 0
          /\ previousImageData = Original
          /\ RunDetection(k, Inserted)
    \/ \E k \in LoopIds, f \in SourceFrames :
          /\ delivered = 0 \/ f = Original
          /\ CaptureWindow(k, f)
    \/ \E i \in 1..MaxDeliveries : CheckSettle(i)

SpecInsert == InitHistory /\ [][NextInsert]_vars

CaptureWindowNoSurface(k, baseline) ==
    /\ loops[k] = "capture"
    /\ previousImageData' = baseline
    /\ loops' = [loops EXCEPT ![k] = "tick"]
    /\ changeDetectionTimer' = k
    /\ UNCHANGED taskVars
    /\ UNCHANGED <<sessionVars, srcObject, changeDetectionEnabled, isChangeDetectionPaused,
                   isAnalyzingScreenChange, temporaryPauseTimer, delivered>>

\* What shows that the source has left the original frame.
SourceChanged ==
    \/ delivered >= 1
    \/ \E k \in LoopIds : loops[k] = "capture"
    \/ previousImageData = Inserted

\* The source shows Original, changes to Inserted at some moment and keeps
\* showing it, while the user goes on with the guide.
NextPersist ==
    \/ cycles = <<>> /\ OnNextTask
    \/ \E i \in 1..MaxCycles : CycleSettle(i)
    \/ \E k \in LoopIds : ~SourceChanged /\ RunDetection(k, Original)
    \/ \E k \in LoopIds : RunDetection(k, Inserted)
    \/ \E k \in LoopIds : CaptureWindow(k, Inserted)
    \/ \E k \in LoopIds : CaptureWindowNoSurface(k, Inserted)
    \/ \E i \in 1..MaxDeliveries : CheckSettle(i)
    \/ \E q \in Questions : OneQuestion /\ SendFollowUpMessage(q)
    \/ \E j \in 1..MaxHelps : HelpSettle(j)

SpecPersist == InitHistory /\ [][NextPersist]_vars

StartDetection ==
    /\ SetStore(StartChangeDetection(Store))
    /\ UNCHANGED taskVars
    /\ UNCHANGED <<sessionVars, isAnalyzingScreenChange, delivered>>

StopDetection ==
    /\ SetStore(StopChangeDetection(Store))
    /\ UNCHANGED taskVars
    /\ UNCHANGED <<sessionVars, isAnalyzingScreenChange, delivered>>

\* The timeout of a capture window (captureDelayMs, 100 ms) was set before
\* the pause that found it pending, so it fires before the timeout of that
\* pause (200 ms by default, 2000 ms after returnToTask).
PauseExpiresInTime ==
    /\ \A k \in LoopIds : loops[k] # "capture"
    /\ TemporaryPauseExpires

\* The loop runs on a source that shows either frame at any time, is paused
\* and resumed through the store, and the user rewinds to the first step.
NextBaseline ==
    \/ \E k \in LoopIds, f \in SourceFrames : RunDetection(k, f)
    \/ \E k \in LoopIds, f \in SourceFrames : CaptureWindow(k, f)
    \/ \E i \in 1..MaxDeliveries : CheckSettle(i)
    \/ Pause
    \/ Resume
    \/ PauseTemporarily
    \/ PauseExpiresInTime
    \/ ReturnToTask(0)

SpecBaseline == InitHistory /\ [][NextBaseline]_vars

\* C22: resume and the expiry of a temporary pause discard the previous
\* frame and pause keeps it; until a poll samples a frame there is none;
\* and a poll that finds none records its frame as the baseline without
\* scheduling a capture window or invoking onChange.
C22_FirstTickRecordsBaseline ==
    [][/\ (Resume \/ TemporaryPauseExpires) =>
             previousImageData' = NoFrame
       /\ (Pause \/ PauseTemporarily) =>
             previousImageData' = previousImageData
       /\ (previousImageData = NoFrame /\ previousImageData' # NoFrame) =>
             \E k \in LoopIds, f \in SourceFrames : RunDetection(k, f)
       /\ \A k \in LoopIds, f \in SourceFrames :
             (/\ RunDetection(k, f)
              /\ ~isChangeDetectionPaused
              /\ previousImageData = NoFrame) =>
                 /\ previousImageData' = f
                 /\ loops'[k] = "tick"
                 /\ delivered' = delivered
                 /\ isAnalyzingScreenChange' = isAnalyzingScreenChange]_vars

\* C23: while the loop is paused the previous frame stays as it is and
\* onChange is not invoked, whether the pause found the loop polling or in
\* a capture window.
C23_PausedLoopSilent ==
    [][(isChangeDetectionPaused /\ isChangeDetectionPaused') =>
            /\ previousImageData' = previousImageData
            /\ delivered' = delivered
            /\ checks' = checks]_vars

\* The loop is started, stopped, paused and resumed through the store in any
\* order, on a source that shows either frame at any time.
NextControl ==
    \/ StartDetection
    \/ StopDetection
    \/ \E k \in LoopIds : VideoLoaded(k)
    \/ \E k \in LoopIds, f \in SourceFrames : RunDetection(k, f)
    \/ \E k \in LoopIds, f \in SourceFrames : CaptureWindow(k, f)
    \/ \E i \in 1..MaxDeliveries : CheckSettle(i)
    \/ Pause
    \/ Resume
    \/ PauseTemporarily
    \/ TemporaryPauseExpires

SpecControl == InitHistory /\ [][NextControl]_vars

\* C24: at most one timeout of a temporary pause is pending; a call on a
\* running loop pauses it with one timeout pending and keeps the previous
\* frame; the timeout resumes the loop, discards the previous frame and
\* leaves none pending; until then only resume, stop or start end the
\* pause; and a call on a loop that is not running changes nothing.
C24_TemporaryPauseRearmed ==
    /\ [](temporaryPauseTimer <= 1)
    /\ [](~changeDetectionEnabled =>
            PauseChangeDetectionTemporarily(Store) = Store)
    /\ [][/\ (PauseTemporarily /\ changeDetectionEnabled) =>
                /\ isChangeDetectionPaused'
                /\ temporaryPauseTimer' = 1
                /\ previousImageData' = previousImageData
          /\ TemporaryPauseExpires =>
                /\ ~isChangeDetectionPaused'
                /\ previousImageData' = NoFrame
                /\ temporaryPauseTimer' = 0
          /\ (/\ temporaryPauseTimer = 1
              /\ isChangeDetectionPaused
              /\ ~isChangeDetectionPaused') =>
                \/ TemporaryPauseExpires
                \/ Resume
                \/ StopDetection
                \/ StartDetection]_vars

\* A temporary pause is pending on a running loop that has a baseline.
C24_Witness ==
    /\ changeDetectionEnabled
    /\ isChangeDetectionPaused
    /\ temporaryPauseTimer = 1
    /\ previousImageData # NoFrame
    /\ \E k \in LoopIds : loops[k] = "tick"

\* C25: stopChangeDetection leaves the loop not enabled and not paused,
\* with no previous frame and with no timeout pending (poll, capture window
\* or temporary pause), and changes nothing when the loop is already
\* stopped.
C25_StopCancelsTimers ==
    /\ [](~changeDetectionEnabled => StopChangeDetection(Store) = Store)
    /\ [][StopDetection =>
            /\ ~changeDetectionEnabled'
            /\ ~isChangeDetectionPaused'
            /\ previousImageData' = NoFrame
            /\ \A k \in LoopIds : loops'[k] \notin {"tick", "capture"}
            /\ temporaryPauseTimer' = 0]_vars

\* The detection videos that exist: loading, polling or in a capture window.
ActiveLoops == {k \in LoopIds : loops[k] # "off"}

\* C26: at most one detection loop exists at a time, whatever the sequence
\* of start and stop; and a start with no stream leaves the store as it is.
C26_SingleLoop ==
    /\ [](Cardinality(ActiveLoops) <= 1)
    /\ [](stream = NoStream => StartChangeDetection(Store) = Store)


\* ------------------------------------------------- the session's source
\* A second stream the screen picker may hand out.
OtherStream == "stream2"

Streams == {LiveStream, OtherStream}

\* startSharing(s), lines 125-142, with a stream fresh from getDisplayMedia:
\* its tracks are live and no video plays it yet.  The session may be active.
StartSharingWith(s) ==
    /\ s # stream
    /\ s \notin liveTracks
    /\ \A k \in LoopIds : srcObject[k] # s
    /\ stream' = s
    /\ isSharing' = TRUE
    /\ liveTracks' = liveTracks \cup {s}
    /\ UNCHANGED taskVars
    /\ UNCHANGED <<isAnalyzingScreenChange, delivered, pipDetails,
                   screenContent, callArgs, callResult>>
    /\ UNCHANGED loopVars

\* The "ended" event of a stream that was shared, lines 138-141: the user
\* ended it in the browser, and the listener calls stopSharing.
TrackEnded(s) ==
    /\ s \in liveTracks
    /\ liveTracks' = liveTracks \ {s, stream}
    /\ SetStore(StopChangeDetection(Store))
    /\ pipDetails' = ClosedPip
    /\ stream' = NoStream
    /\ isSharing' = FALSE
    /\ UNCHANGED <<screenContent, callArgs, callResult>>
    /\ UNCHANGED taskVars
    /\ UNCHANGED <<isAnalyzingScreenChange, delivered>>

\* The companion window opens during a session; the callback it registers
\* with setPipCloseCallback (line 74) closes it, and the getter it registers
\* with setPipDetailsGetter (line 72) reports it.
OpenPipWindow ==
    /\ stream # NoStream
    /\ pipDetails = ClosedPip
    /\ pipDetails' = PipAt(0, 0)
    /\ UNCHANGED taskVars
    /\ UNCHANGED <<stream, isSharing, liveTracks, screenContent, callArgs, callResult,
                   isAnalyzingScreenChange, delivered>>
    /\ UNCHANGED loopVars

\* The session is started, restarted with another stream and stopped, by the
\* user or by the end of a stream, while the loop is started and stopped.
NextSource ==
    \/ \E s \in Streams : StartSharingWith(s)
    \/ StopSharing
    \/ \E s \in Streams : TrackEnded(s)
    \/ OpenPipWindow
    \/ StartDetection
    \/ StopDetection
    \/ \E k \in LoopIds : VideoLoaded(k)
    \/ \E k \in LoopIds, f \in SourceFrames : RunDetection(k, f)
    \/ \E k \in LoopIds, f \in SourceFrames : CaptureWindow(k, f)
    \/ \E i \in 1..MaxDeliveries : CheckSettle(i)

SpecSource == InitHistory /\ [][NextSource]_vars

\* C27: while the loop is enabled, every detection video with a poll or a
\* capture window pending plays the stream of the session.
C27_LoopSamplesCurrentSource ==
    \A k \in LoopIds :
        (changeDetectionEnabled /\ loops[k] \in {"tick", "capture"})
            => srcObject[k] = stream


\* C28: stopSharing, called by the user or by the end of the session's
\* stream, leaves no track of that stream live, no session and no stream,
\* the loop disabled with no poll and no capture window pending, and the
\* companion window closed; and with no session the loop is not enabled and
\* hands no frame to onChange.
C28_StopEndsSession ==
    /\ [][(StopSharing \/ TrackEnded(stream)) =>
            /\ stream' = NoStream
            /\ stream \notin liveTracks'
            /\ ~pipDetails'.isActive
            /\ ~changeDetectionEnabled'
            /\ \A k \in LoopIds : loops'[k] \notin {"tick", "capture"}]_vars
    /\ [](stream = NoStream => ~changeDetectionEnabled)
    /\ [][stream = NoStream => delivered' = delivered]_vars


\* ------------------------------------------------- captureImageFromStream
\* captureImageFromStream without the early resolve of lines 168-171.
CaptureImageFromStream_Rejecting(s, loads, ctx, nonScaledCtx) ==
    IF s = NoStream \/ ~loads
    THEN [settled |-> "rejected", error |-> "Error loading video",
          scaledImageDataUrl |-> EmptyUrl, nonScaledImageDataUrl |-> EmptyUrl]
    ELSE IF ~ctx
    THEN [settled |-> "rejected", error |-> "Could not get canvas context",
          scaledImageDataUrl |-> EmptyUrl, nonScaledImageDataUrl |-> EmptyUrl]
    ELSE [settled |-> "resolved", error |-> "",
          scaledImageDataUrl |-> ImageUrl,
          nonScaledImageDataUrl |-> IF nonScaledCtx THEN ImageUrl
                                    ELSE EmptyUrl]

\* How the promise of captureImageFromStream settles, lines 159-276, for the
\* stream s of the store: loads is FALSE when the video raises onerror, ctx
\* and nonScaledCtx are FALSE when getContext("2d") returns null for the
\* scaled and for the full-size canvas.
CaptureImageFromStream(s, loads, ctx, nonScaledCtx) ==
    IF s = NoStream
    THEN [settled |-> "resolved", error |-> "",
          scaledImageDataUrl |-> EmptyUrl, nonScaledImageDataUrl |-> EmptyUrl]
    ELSE IF ~loads
    THEN [settled |-> "rejected", error |-> "Error loading video",
          scaledImageDataUrl |-> EmptyUrl, nonScaledImageDataUrl |-> EmptyUrl]
    ELSE IF ~ctx
    THEN [settled |-> "rejected", error |-> "Could not get canvas context",
          scaledImageDataUrl |-> EmptyUrl, nonScaledImageDataUrl |-> EmptyUrl]
    ELSE [settled |-> "resolved", error |-> "",
          scaledImageDataUrl |-> ImageUrl,
          nonScaledImageDataUrl |-> IF nonScaledCtx THEN ImageUrl
                                    ELSE EmptyUrl]

\* The runs of the provider that wait for captureImageFromStream.
CapturesInFlight ==
    Cardinality({i \in 1..Len(cycles) : cycles[i].pc = "capture"})
        + Cardinality({j \in 1..Len(helps) : helps[j].pc = "capture"})

PixelX(i, w) == (i - 1) % w

PixelY(i, w) == (i - 1) \div w

\* window.screen.width and window.screen.height: the shared screen is
\* captured at its own size.
ScreenWidth == VideoWidth

ScreenHeight == VideoHeight

PipColour == <<0, 0, 255>>

BannerColour == <<0, 255, 0>>

Red == <<200, 0, 0>>

ScreenContents == {White, Red}

PipStates == {ClosedPip, PipAt(0, 0), PipAt(PipSize, 0),
              [PipAt(0, 0) EXCEPT !.isVisible = FALSE]}

\* The rectangle detectAndMaskPopup blackens, lines 596-617: the pixels
\* <<px, py>> of a canvas of the given size that it writes.
InPopupMask(px, py, width, height) ==
    LET maskWidth == (width * 3) \div 10
        maskHeight == 100
        maskX == (width - maskWidth) \div 2
        maskY == (height * 85) \div 100
        startX == Max(0, maskX)
        endX == IF width <= maskX + maskWidth THEN width
                ELSE maskX + maskWidth
        startY == Max(0, maskY)
        endY == IF height <= startY + maskHeight THEN height
                ELSE startY + maskHeight
    IN /\ startX <= px /\ px < endX
       /\ startY <= py /\ py < endY

\* Lines 584-624.
DetectAndMaskPopup(data, width, height) ==
    [i \in DOMAIN data |->
        IF InPopupMask(PixelX(i, width), PixelY(i, width), width, height)
        THEN Black ELSE data[i]]

\* The part of canvas pixel <<px, py>> that fillRect covers (lines 559-565),
\* in units of 1 / (ScreenWidth * ScreenHeight) of a pixel: the rectangle of
\* the window is scaled from screen pixels to canvas pixels by
\* canvasWidth / screen.width and canvasHeight / screen.height, and its
\* edges need not fall between pixels.
Covered(px, py, details, canvasWidth, canvasHeight) ==
    LET left == Max(px * ScreenWidth, details.x * canvasWidth)
        right == IF (px + 1) * ScreenWidth
                      <= (details.x + details.width) * canvasWidth
                 THEN (px + 1) * ScreenWidth
                 ELSE (details.x + details.width) * canvasWidth
        top == Max(py * ScreenHeight, details.y * canvasHeight)
        bottom == IF (py + 1) * ScreenHeight
                       <= (details.y + details.height) * canvasHeight
                  THEN (py + 1) * ScreenHeight
                  ELSE (details.y + details.height) * canvasHeight
    IN Max(0, right - left) * Max(0, bottom - top)

\* Black painted over a pixel of which a part is covered: the canvas blends
\* the fill colour with the pixel by the part covered (anti-aliasing).
Blend(pixel, covered) ==
    [channel \in 1..3 |->
        (pixel[channel] * (ScreenWidth * ScreenHeight - covered))
            \div (ScreenWidth * ScreenHeight)]

\* Lines 542-566: nothing for a window that is not active or not visible;
\* otherwise fillRect in black.
MaskPipWindow(data, details, canvasWidth, canvasHeight) ==
    IF ~details.isActive \/ ~details.isVisible THEN data
    ELSE [i \in DOMAIN data |->
            Blend(data[i],
                  Covered(PixelX(i, canvasWidth), PixelY(i, canvasWidth),
                          details, canvasWidth, canvasHeight))]

\* The floor of length * sqrt(maxPixels / currentPixels) in exact arithmetic:
\* the largest n with n * n * currentPixels <= length * length * maxPixels.
FloorScaled(length, currentPixels, maxPixels) ==
    CHOOSE n \in 0..length :
        /\ n * n * currentPixels <= length * length * maxPixels
        /\ (n + 1) * (n + 1) * currentPixels > length * length * maxPixels

\* ------------------------------------------------------ double arithmetic
\* JavaScript numbers are IEEE 754 doubles.  A natural number too large for
\* the model's integers is kept as its digits in base BigBase, the lowest
\* first.
BigBase == 2^13

\* The digits d(1), d(2), ... as a tuple: nine places hold the square of a
\* mantissa with its guard digits.
BigDigits(d(_)) == <<d(1), d(2), d(3), d(4), d(5), d(6), d(7), d(8), d(9)>>

BigLen == Len(BigDigits(LAMBDA i : 0))

BigOf(n) ==
    BigDigits(LAMBDA i :
        IF i = 1 THEN n % BigBase
        ELSE IF i = 2 THEN (n \div BigBase) % BigBase
        ELSE IF i = 3 THEN n \div (BigBase * BigBase)
        ELSE 0)

\* The value of a number known to be small.
BigToInt(a) == a[1] + BigBase * a[2] + BigBase * BigBase * a[3]

RECURSIVE BigCarry(_, _, _)
BigCarry(a, b, i) ==
    IF i = 1 THEN 0
    ELSE (a[i - 1] + b[i - 1] + BigCarry(a, b, i - 1)) \div BigBase

BigAdd(a, b) ==
    BigDigits(LAMBDA i : (a[i] + b[i] + BigCarry(a, b, i)) % BigBase)

RECURSIVE BigBorrow(_, _, _)
BigBorrow(a, b, i) ==
    IF i = 1 THEN 0
    ELSE IF a[i - 1] - b[i - 1] - BigBorrow(a, b, i - 1) < 0 THEN 1 ELSE 0

\* a - b, for a >= b.
BigSub(a, b) ==
    BigDigits(LAMBDA i :
        (a[i] - b[i] - BigBorrow(a, b, i) + BigBase) % BigBase)

RECURSIVE BigLessFrom(_, _, _)
BigLessFrom(a, b, i) ==
    IF i = 0 THEN FALSE
    ELSE IF a[i] # b[i] THEN a[i] < b[i]
    ELSE BigLessFrom(a, b, i - 1)

BigLess(a, b) == BigLessFrom(a, b, BigLen)

BigHalf(a) ==
    BigDigits(LAMBDA i :
        (a[i] \div 2)
        + (IF i < BigLen THEN (a[i + 1] % 2) * (BigBase \div 2) ELSE 0))

RECURSIVE BigMulCarry(_, _, _)
BigMulCarry(a, k, i) ==
    IF i = 1 THEN 0
    ELSE (a[i - 1] * k + BigMulCarry(a, k, i - 1)) \div BigBase

\* a * k, for a small k.
BigMulSmall(a, k) ==
    BigDigits(LAMBDA i : (a[i] * k + BigMulCarry(a, k, i)) % BigBase)

RECURSIVE BigDivRem(_, _, _)
BigDivRem(a, k, i) ==
    IF i > BigLen THEN 0
    ELSE (BigDivRem(a, k, i + 1) * BigBase + a[i]) % k

\* The quotient of a by a small k, and whether it is exact.
BigDivSmall(a, k) ==
    BigDigits(LAMBDA i : (BigDivRem(a, k, i + 1) * BigBase + a[i]) \div k)

BigDivides(a, k) == BigDivRem(a, k, 1) = 0

\* a * 2^t and the whole part of a / 2^t: whole places first, then less
\* than one place.
BigShiftLeft(a, t) ==
    LET places == t \div 13 IN
    BigMulSmall(BigDigits(LAMBDA i : IF i > places THEN a[i - places] ELSE 0),
                2^(t % 13))

BigShiftRight(a, t) ==
    LET places == t \div 13 IN
    BigDivSmall(BigDigits(LAMBDA i :
                    IF i + places <= BigLen THEN a[i + places] ELSE 0),
                2^(t % 13))

RECURSIVE SmallBits(_)
SmallBits(n) == IF n = 0 THEN 0 ELSE 1 + SmallBits(n \div 2)

RECURSIVE BigBitsFrom(_, _)
BigBitsFrom(a, i) ==
    IF i = 0 THEN 0
    ELSE IF a[i] # 0 THEN 13 * (i - 1) + SmallBits(a[i])
    ELSE BigBitsFrom(a, i - 1)

\* The number of binary digits of a.
BigBits(a) == BigBitsFrom(a, BigLen)

\* A double is mant * 2^exp.  RoundToDouble(a, exp) is the double nearest to
\* a * 2^exp, ties to the even mantissa (53 binary digits).
RoundToDouble(a, exp) ==
    IF BigBits(a) <= 53 THEN [mant |-> a, exp |-> exp]
    ELSE LET t == BigBits(a) - 53
             kept == BigShiftRight(a, t)
             low == BigSub(a, BigShiftLeft(kept, t))
             half == BigShiftLeft(BigOf(1), t - 1)
             up == BigLess(half, low) \/ (low = half /\ kept[1] % 2 = 1)
         IN [mant |-> IF up THEN BigAdd(kept, BigOf(1)) ELSE kept,
             exp |-> exp + t]

\* a real number between a * 2^exp and (a + 1) * 2^exp, rounded: a has at
\* least 55 binary digits, so a digit appended for the rest decides.
RoundInexact(a, exact, exp) ==
    RoundToDouble(BigAdd(BigAdd(a, a), BigOf(IF exact THEN 0 ELSE 1)),
                  exp - 1)

\* m / c for integers 0 < m < c < 2^8.
DoubleDivide(m, c) ==
    LET num == BigShiftLeft(BigOf(m), 64)
    IN RoundInexact(BigDivSmall(num, c), BigDivides(num, c), -64)

\* The integer square root, digit by digit: x is what is left of the
\* radicand, bit a power of 4.
RECURSIVE BigSqrtStep(_, _, _, _)
BigSqrtStep(x, res, bit, n) ==
    IF n = 0 THEN [root |-> res, rest |-> x]
    ELSE LET sum == BigAdd(res, bit) IN
         IF BigLess(x, sum)
         THEN BigSqrtStep(x, BigHalf(res), BigHalf(BigHalf(bit)), n - 1)
         ELSE BigSqrtStep(BigSub(x, sum), BigAdd(BigHalf(res), bit),
                          BigHalf(BigHalf(bit)), n - 1)

BigSqrt(x) == BigSqrtStep(x, BigOf(0), BigShiftLeft(BigOf(1), 112), 57)

\* Math.sqrt of a double, correctly rounded.
DoubleSqrt(q) ==
    LET bits == BigBits(q.mant)
        u0 == 111 - bits
        u == IF (q.exp - u0) % 2 = 0 THEN u0 ELSE u0 - 1
        s == BigSqrt(BigShiftLeft(q.mant, u))
    IN RoundInexact(s.root, s.rest = BigOf(0), (q.exp - u) \div 2)

\* length * f for a small integer length.
DoubleTimes(length, f) == RoundToDouble(BigMulSmall(f.mant, length), f.exp)

\* Math.floor of a double below 2^26.
DoubleFloor(p) ==
    IF p.exp >= 0 THEN BigToInt(BigShiftLeft(p.mant, p.exp))
    ELSE BigToInt(BigShiftRight(p.mant, 0 - p.exp))

\* Lines 575-579: Math.floor(length * Math.sqrt(maxPixels / currentPixels)),
\* each operation rounded as the doubles of JavaScript round it.
ScaledLength(length, currentPixels, maxPixels) ==
    DoubleFloor(DoubleTimes(length,
                            DoubleSqrt(DoubleDivide(maxPixels,
                                                    currentPixels))))

\* Lines 568-582.
GetScaledDimensions(width, height, maxPixels) ==
    IF width * height > maxPixels
    THEN [width |-> ScaledLength(width, width * height, maxPixels),
          height |-> ScaledLength(height, width * height, maxPixels)]
    ELSE [width |-> width, height |-> height]

imagePixelSize == 1500000

imageSizeForChangeDetection == 800000

\* scaleFactor, 0.1, in percent.
scaleFactorPercent == 10

\* What the video of the stream shows: the screen in one colour, the
\* browser's sharing banner where detectAndMaskPopup expects it, and the
\* companion window, when it is shown, on top.
VideoFrame(content, details) ==
    [i \in 1..(VideoWidth * VideoHeight) |->
        LET px == PixelX(i, VideoWidth)
            py == PixelY(i, VideoWidth)
        IN IF /\ details.isActive /\ details.isVisible
              /\ details.x <= px /\ px < details.x + details.width
              /\ details.y <= py /\ py < details.y + details.height
           THEN PipColour
           ELSE IF InPopupMask(px, py, VideoWidth, VideoHeight)
                THEN BannerColour
                ELSE content]

\* ctx.drawImage(video, 0, 0, width, height): each pixel of the canvas takes
\* the pixel of the video at its scaled position.
DrawImage(frame, width, height) ==
    [i \in 1..(width * height) |->
        frame[((PixelY(i, width) * VideoHeight) \div height) * VideoWidth
              + ((PixelX(i, width) * VideoWidth) \div width) + 1]]

\* The analysis frame of runDetection, lines 322-341, which the reset of
\* lines 428-446 samples again.
AnalysisFrame(content, details) ==
    LET width == (VideoWidth * scaleFactorPercent) \div 100
        height == (VideoHeight * scaleFactorPercent) \div 100
    IN DetectAndMaskPopup(
           MaskPipWindow(DrawImage(VideoFrame(content, details), width,
                                   height),
                         details, width, height),
           width, height)

\* The two frames of one capture, with the pixel budget of the scaled one:
\* lines 206-253 of captureImageFromStream, lines 361-424 of the capture
\* window.
RenderedFrames(content, details, maxPixels) ==
    LET size == GetScaledDimensions(VideoWidth, VideoHeight, maxPixels)
        frame == VideoFrame(content, details)
    IN [scaled |->
            DetectAndMaskPopup(
                MaskPipWindow(DrawImage(frame, size.width, size.height),
                              details, size.width, size.height),
                size.width, size.height),
        nonScaled |-> DrawImage(frame, VideoWidth, VideoHeight)]

\* captureImageFromStream resolves with these (default options).
CapturedFrames == RenderedFrames(screenContent, pipDetails, imagePixelSize)

\* The capture window calls onChange with these.
OnChangeFrames ==
    RenderedFrames(screenContent, pipDetails, imageSizeForChangeDetection)

\* A pixel of the companion window or of the banner is left in the frame.
Leaks(data) ==
    \E i \in DOMAIN data : data[i] \in {PipColour, BannerColour}

\* The screen changes colour, and the companion window is opened, moved,
\* hidden or closed, between two polls.
ScreenChanges(content, details) ==
    /\ stream # NoStream
    /\ \A k \in LoopIds : loops[k] # "capture"
    /\ <<content, details>> # <<screenContent, pipDetails>>
    /\ screenContent' = content
    /\ pipDetails' = details
    /\ UNCHANGED taskVars
    /\ UNCHANGED <<stream, isSharing, liveTracks, isAnalyzingScreenChange, delivered,
                   callArgs, callResult>>
    /\ UNCHANGED loopVars

\* The guide with the loop running on the rendered screen: the user presses
\* "next" when no cycle is in flight, and every capture and external call
\* resolves or rejects.
NextMask ==
    \/ \E c \in ScreenContents, d \in PipStates : ScreenChanges(c, d)
    \/ \E k \in LoopIds :
          RunDetection(k, AnalysisFrame(screenContent, pipDetails))
    \/ \E k \in LoopIds :
          CaptureWindow(k, AnalysisFrame(screenContent, pipDetails))
    \/ \E i \in 1..MaxDeliveries : CheckSettle(i)
    \/ cycles = <<>> /\ OnNextTask
    \/ \E i \in 1..MaxCycles : CycleSettle(i)

SpecMask == InitHistory /\ [][NextMask]_vars

\* C30: no analysis frame kept for diffing shows a pixel of the companion
\* window or of the banner, and neither do the two frames the capture window
\* hands to onChange, nor the two frames captureImageFromStream resolves
\* with, which go to generateAction and to generateCoordinate.
C30_EveryFrameMasked ==
    /\ [](previousImageData # NoFrame => ~Leaks(previousImageData))
    /\ [][(\E k \in LoopIds :
             CaptureWindow(k, AnalysisFrame(screenContent, pipDetails))) =>
            /\ ~Leaks(OnChangeFrames.scaled)
            /\ ~Leaks(OnChangeFrames.nonScaled)]_vars
    /\ [][(\E i \in 1..MaxCycles : CaptureResolve(i)) =>
            /\ ~Leaks(CapturedFrames.scaled)
            /\ ~Leaks(CapturedFrames.nonScaled)]_vars


\* ---------------------------------------------------------- frame scaler
\* The sizes and pixel budgets getScaledDimensions is examined on.
MaxSide == 15

Budgets == {1, 4, 100, 169, 225}

\* getScaledDimensions is about to be called with a size and a budget.
InitScaler ==
    /\ InitStore
    /\ callArgs \in [width : 1..MaxSide, height : {1, 2, MaxSide},
                     maxPixels : Budgets]
    /\ callResult = NoCall

\* Lines 568-582: the call returns.
ScalerReturns ==
    /\ callResult = NoCall
    /\ callResult' = GetScaledDimensions(callArgs.width, callArgs.height,
                                        callArgs.maxPixels)
    /\ UNCHANGED taskVars
    /\ UNCHANGED <<stream, isSharing, liveTracks, pipDetails, screenContent, callArgs,
                   isAnalyzingScreenChange, delivered>>
    /\ UNCHANGED loopVars

SpecScaler == InitScaler /\ [][ScalerReturns]_vars

\* C31: a size within the budget is returned as it is; a larger one is
\* returned no wider and no higher, within the budget, each side the floor
\* of the side times sqrt(budget / (width * height)).
C31_ScalerFloors ==
    callResult # NoCall =>
        LET w == callArgs.width
            h == callArgs.height
            budget == callArgs.maxPixels
        IN IF w * h <= budget
           THEN callResult = [width |-> w, height |-> h]
           ELSE /\ callResult.width * callResult.height <= budget
                /\ callResult.width <= w
                /\ callResult.height <= h
                /\ callResult.width = FloorScaled(w, w * h, budget)
                /\ callResult.height = FloorScaled(h, w * h, budget)

\* ---------------------------------------------------------- frame differ
\* An ImageData: its width, its height and its pixels <<r, g, b, a>>.
ImageData(width, height, data) ==
    [width |-> width, height |-> height, data |-> data]

\* Lines 512-540: (differentPixels / totalPixels) * 100, a double.
CalculateImageDifference(imageData1, imageData2) ==
    LET differentPixels == DifferentPixels(imageData1.data, imageData2.data)
        totalPixels == imageData1.width * imageData1.height
    IN DoubleTimes(100, DoubleDivide(differentPixels, totalPixels))

\* The pixels and the frames calculateImageDifference is examined on: two
\* pixels 10 apart in red and different in alpha, one 11 apart in blue, one
\* 255 apart in red.
DifferPixels ==
    {<<0, 0, 0, 255>>, <<10, 0, 0, 0>>, <<10, 0, 11, 255>>, <<255, 0, 0, 255>>}

DifferSizes == {<<1, 1>>, <<2, 1>>, <<3, 1>>}

DifferFrames ==
    UNION {{ImageData(size[1], size[2], data) :
                data \in [1..(size[1] * size[2]) -> DifferPixels]} :
           size \in DifferSizes}

\* calculateImageDifference is about to be called with two frames.
InitDiffer ==
    /\ InitStore
    /\ callArgs \in [imageData1 : DifferFrames, imageData2 : DifferFrames]
    /\ callResult = NoCall

\* Lines 512-540: the call returns.
DifferReturns ==
    /\ callResult = NoCall
    /\ callResult' = CalculateImageDifference(callArgs.imageData1,
                                              callArgs.imageData2)
    /\ UNCHANGED taskVars
    /\ UNCHANGED <<stream, isSharing, liveTracks, pipDetails, screenContent, callArgs,
                   isAnalyzingScreenChange, delivered>>
    /\ UNCHANGED loopVars

SpecDiffer == InitDiffer /\ [][DifferReturns]_vars

SameDimensions(a, b) == a.width = b.width /\ a.height = b.height

\* The pixels of which at least one of red, green and blue differs by more
\* than 10.
ChangedCount(a, b) ==
    Cardinality({i \in 1..Len(a.data) :
                    \E channel \in 1..3 :
                        Abs(a.data[i][channel] - b.data[i][channel]) > 10})

\* Two doubles of the same value.
DoubleEq(p, q) ==
    LET d == p.exp - q.exp IN
    IF d >= 0
    THEN IF d > 60 THEN p.mant = BigOf(0) /\ q.mant = BigOf(0)
         ELSE BigShiftLeft(p.mant, d) = q.mant
    ELSE IF d < -60 THEN p.mant = BigOf(0) /\ q.mant = BigOf(0)
         ELSE BigShiftLeft(q.mant, 0 - d) = p.mant

\* The double p is n / d within 2^-51 of it, n and d small integers.
DoubleNear(p, n, d) ==
    LET u == Max(0 - p.exp, 51)
        scaled == BigShiftLeft(BigMulSmall(p.mant, d), u + p.exp)
        exact == BigShiftLeft(BigOf(n), u)
        apart == IF BigLess(scaled, exact) THEN BigSub(exact, scaled)
                 ELSE BigSub(scaled, exact)
    IN ~BigLess(BigShiftLeft(BigOf(n), u - 51), apart)

\* C32: for two frames of equal dimensions the result is the quotient of
\* the number of changed pixels by the pixel count, times 100, each of the
\* two operations rounded to a double: within 2^-51 of 100 * changed /
\* pixels; it is 0 for a frame and itself, the same with the frames
\* exchanged, and 100 when the red of every pixel differs by 255.  Alpha and
\* a difference of exactly 10 do not count.
C32_DifferCounts ==
    (callResult # NoCall /\ SameDimensions(callArgs.imageData1,
                                           callArgs.imageData2)) =>
        LET a == callArgs.imageData1
            b == callArgs.imageData2
        IN /\ DoubleNear(callResult, 100 * ChangedCount(a, b),
                         a.width * a.height)
           /\ a.data = b.data => DoubleEq(callResult, [mant |-> BigOf(0), exp |-> 0])
           /\ callResult = CalculateImageDifference(b, a)
           /\ (\A i \in 1..Len(a.data) :
                  Abs(a.data[i][1] - b.data[i][1]) = 255)
                => DoubleEq(callResult, [mant |-> BigOf(100), exp |-> 0])

\* A call in which alpha differs, a pixel differs by exactly 10 and another
\* by more has returned one third.
C32_Witness ==
    /\ callResult # NoCall
    /\ callArgs.imageData1 =
         ImageData(3, 1, <<<<0, 0, 0, 255>>, <<0, 0, 0, 255>>,
                           <<10, 0, 0, 0>>>>)
    /\ callArgs.imageData2 =
         ImageData(3, 1, <<<<10, 0, 0, 0>>, <<0, 0, 0, 255>>,
                           <<10, 0, 11, 255>>>>)
    /\ DoubleNear(callResult, 100, 3)

\* C32 as stated: the result is 100 * changed / pixels (the double nearest
\* to it).
C32_AsStated ==
    (callResult # NoCall /\ SameDimensions(callArgs.imageData1,
                                           callArgs.imageData2)) =>
        DoubleEq(callResult,
                 DoubleDivide(100 * ChangedCount(callArgs.imageData1,
                                                 callArgs.imageData2),
                              callArgs.imageData1.width
                                * callArgs.imageData1.height))


\* The outcome the claim names for frames of unequal dimensions.
DimensionMismatch == [error |-> "DimensionMismatch"]

\* C33: calculateImageDifference called on two frames of unequal dimensions
\* fails with a DimensionMismatch and yields no percentage.
C33_MismatchIsError ==
    (callResult # NoCall /\ ~SameDimensions(callArgs.imageData1,
                                            callArgs.imageData2)) =>
        callResult = DimensionMismatch

\* The analysis frame of the Original screen once the resolution of the
\* source has grown: video.videoWidth is read anew at every poll (lines
\* 322-326).
Widened == << <<0, 0, 0>>, <<0, 0, 0>> >>

\* The user shares a screen and goes on with the guide; the loop polls
\* while the resolution of the source changes.
NextResize ==
    \/ StartSharing
    \/ cycles = <<>> /\ OnNextTask
    \/ \E i \in 1..MaxCycles : CycleSettle(i)
    \/ \E k \in LoopIds : VideoLoaded(k)
    \/ \E k \in LoopIds, f \in {Original, Inserted, Widened} :
          RunDetection(k, f)
    \/ \E k \in LoopIds, f \in {Original, Inserted, Widened} :
          CaptureWindow(k, f)
    \/ \E i \in 1..MaxDeliveries : CheckSettle(i)

SpecResize == Init /\ [][NextResize]_vars

\* C33, the loop: a poll that compares the current frame with the previous
\* one and keeps it as the new previous frame found the two of the same
\* size.
C33_LoopComparesEqualFrames ==
    [][(/\ previousImageData # NoFrame
        /\ previousImageData' # NoFrame
        /\ previousImageData' # previousImageData
        /\ loops' = loops)
       => Len(previousImageData') = Len(previousImageData)]_vars


\* ------------------------------------------------------------ the masks
\* The canvas the two masks are examined on, of the size of the analysis
\* canvas, and the windows: those of PipStates and one whose edges fall
\* inside canvas pixels.
MaskWidth == (VideoWidth * scaleFactorPercent) \div 100

MaskHeight == (VideoHeight * scaleFactorPercent) \div 100

MaskDetails == PipStates \cup {PipAt(PipSize \div 2, 0)}

\* One of the two masks is about to be applied to a canvas.
InitMasker ==
    /\ InitStore
    /\ callArgs \in
         [fn : {"maskPipWindow"},
          data : [1..(MaskWidth * MaskHeight) -> ScreenContents],
          details : MaskDetails]
         \cup [fn : {"detectAndMaskPopup"},
               data : [1..(MaskWidth * MaskHeight) -> ScreenContents],
               details : {ClosedPip}]
    /\ callResult = NoCall

\* The canvas the next application of the mask finds.
MaskInput == IF callResult = NoCall THEN callArgs.data
             ELSE callResult[Len(callResult)]

\* Lines 542-566: maskPipWindow is applied, a first and a second time;
\* callResult holds the canvas after each.
MaskPipWindowCall ==
    /\ callArgs.fn = "maskPipWindow"
    /\ Len(callResult) < 2
    /\ callResult' = Append(callResult,
                            MaskPipWindow(MaskInput, callArgs.details,
                                          MaskWidth, MaskHeight))
    /\ UNCHANGED taskVars
    /\ UNCHANGED <<stream, isSharing, liveTracks, pipDetails, screenContent, callArgs,
                   isAnalyzingScreenChange, delivered>>
    /\ UNCHANGED loopVars

\* Lines 584-624: detectAndMaskPopup is applied, a first and a second time.
DetectAndMaskPopupCall ==
    /\ callArgs.fn = "detectAndMaskPopup"
    /\ Len(callResult) < 2
    /\ callResult' = Append(callResult,
                            DetectAndMaskPopup(MaskInput, MaskWidth,
                                               MaskHeight))
    /\ UNCHANGED taskVars
    /\ UNCHANGED <<stream, isSharing, liveTracks, pipDetails, screenContent, callArgs,
                   isAnalyzingScreenChange, delivered>>
    /\ UNCHANGED loopVars

NextMasker == MaskPipWindowCall \/ DetectAndMaskPopupCall

SpecMasker == InitMasker /\ [][NextMasker]_vars

\* C34: maskPipWindow changes no pixel for a window that is not active or
\* not visible; for an active and visible one every pixel is black or as it
\* was, black when it lies in the scaled rectangle of the window and as it
\* was when it lies out of it; a second application of either mask changes
\* nothing.
C34_MaskExactAndIdempotent ==
    callResult # NoCall =>
        LET data == callArgs.data
            once == callResult[1]
            details == callArgs.details
            all == ScreenWidth * ScreenHeight
            part(i) == Covered(PixelX(i, MaskWidth), PixelY(i, MaskWidth),
                               details, MaskWidth, MaskHeight)
        IN /\ callArgs.fn = "maskPipWindow" =>
                IF ~details.isActive \/ ~details.isVisible
                THEN once = data
                ELSE \A i \in DOMAIN data :
                        /\ once[i] = Black \/ once[i] = data[i]
                        /\ part(i) = all => once[i] = Black
                        /\ part(i) = 0 => once[i] = data[i]
           /\ Len(callResult) = 2 => callResult[2] = once


\* ------------------------------------------------- the start of the loop
\* Cycle i ends with this step, in the finally of lines 494-498.
CycleEnds(i) ==
    /\ i \in 1..Len(cycles)
    /\ cycles' = RemoveAt(cycles, i)
    /\ isTriggering
    /\ ~isTriggering'

\* C35: a cycle that appended a step that is not empty and not "done" or
\* "done.", for a goal whose loop was not started yet, has started the loop
\* when it releases its guard, whatever became of its coordinate request and
\* of its preview: changeDetectionStarted is set and, with a source held,
\* change detection is enabled.
C35_LoopStartedByCycle ==
    [][\A i \in 1..Len(cycles) :
          (/\ CycleEnds(i)
           /\ cycles[i].pc \in {"coordinate", "snapshot"}
           /\ ~changeDetectionStarted)
          => /\ changeDetectionStarted'
             /\ stream # NoStream => changeDetectionEnabled']_vars

\* ------------------------------------------------- the preview of a step
\* The guide in the middle of a goal whose only step so far is "Wait": the
\* user presses next, refreshes, rewinds and resets while a cycle is under
\* way.
InitPreview == InitGoing(<<NewTaskItem(StrWait)>>, 0)

NextPreview ==
    \/ OnNextTask
    \/ OnRefreshTask
    \/ CycleSteps
    \/ Rewinds
    \/ Reset

SpecPreview == InitPreview /\ [][NextPreview]_vars

\* C36: the preview a cycle produced goes to the step that cycle created:
\* when the last step of the history is not that step (here: it has another
\* instruction), the end of the cycle sets or replaces no preview.
C36_PreviewOnOwnStep ==
    [][\A i \in 1..Len(cycles) :
          (/\ CycleEnds(i)
           /\ cycles[i].pc = "snapshot"
           /\ tasks # <<>>
           /\ tasks[Len(tasks)].text # cycles[i].text)
          => tasks' = tasks]_vars


\* ------------------------------------------------- the analyzing flag
\* C37: isAnalyzingScreenChange is not left set once the loop is stopped
\* and no verification is under way.
C37_FlagClearedWhenStopped ==
    ~(/\ isAnalyzingScreenChange
      /\ ~changeDetectionEnabled
      /\ \A k \in LoopIds : loops[k] = "off"
      /\ checks = <<>>
      /\ ~isChecking
      /\ pendingCheckImage = 0)


\* ------------------------------------------------------ the explicit pause
\* The guide in the middle of a goal, the loop polling, and the timeout of
\* a temporary pause still pending: pauseChangeDetectionTemporarily was
\* followed by resumeChangeDetection, which does not clear it (lines
\* 485-491).
InitTimerPending ==
    InitGoing(<<NewTaskItem(<<"G", "o">>)>>, 1)

\* From then on the loop is paused only by pauseChangeDetection; it is
\* resumed, stopped and started again, and polls a source that shows either
\* frame at any time.
NextExplicitPause ==
    \/ Pause
    \/ Resume
    \/ StopDetection
    \/ StartDetection
    \/ TemporaryPauseExpires
    \/ \E k \in LoopIds : VideoLoaded(k)
    \/ \E k \in LoopIds, f \in SourceFrames : RunDetection(k, f)
    \/ \E k \in LoopIds, f \in SourceFrames : CaptureWindow(k, f)
    \/ \E i \in 1..MaxDeliveries : CheckSettle(i)

SpecExplicitPause == InitTimerPending /\ [][NextExplicitPause]_vars

\* C38: a pause made by pauseChangeDetection is not ended by the timeout of
\* a temporary pause that was set before it: the step in which that timeout
\* fires leaves a paused loop paused.
C38_ExplicitPauseHolds ==
    [][(temporaryPauseTimer' < temporaryPauseTimer
        /\ isChangeDetectionPaused)
       => isChangeDetectionPaused']_vars


\* ------------------------------------------------- session and loop flags
\* From a store on which nothing is shared: the session is started,
\* restarted with another stream and stopped, by the user or by the end of a
\* stream; the loop is started, stopped, paused and resumed in any order,
\* and polls a screen that does not change.
NextSession ==
    \/ \E s \in Streams : StartSharingWith(s)
    \/ StopSharing
    \/ \E s \in Streams : TrackEnded(s)
    \/ StartDetection
    \/ StopDetection
    \/ Pause
    \/ Resume
    \/ PauseTemporarily
    \/ TemporaryPauseExpires
    \/ \E k \in LoopIds : VideoLoaded(k)
    \/ \E k \in LoopIds : RunDetection(k, Original)

SpecSession == Init /\ [][NextSession]_vars

\* C39: isSharing is true exactly when a stream is held; change detection
\* is enabled only while isSharing is true; and it is paused only while it
\* is enabled.
C39_SessionAndLoopFlags ==
    /\ isSharing <=> stream # NoStream
    /\ changeDetectionEnabled => isSharing
    /\ isChangeDetectionPaused => changeDetectionEnabled

\* The session was restarted with another stream and its loop is paused by
\* a temporary pause.
C39_Witness ==
    /\ isSharing
    /\ stream = OtherStream
    /\ changeDetectionEnabled
    /\ isChangeDetectionPaused
    /\ temporaryPauseTimer = 1


\* ------------------------------------------------- step counter and history
\* C40: whenever no run of triggerGenerateTaskDescription is suspended,
\* totalTaskCount is the number of steps in tasks, and no step of tasks has
\* an empty text.
C40_CountMatchesHistory ==
    cycles = <<>> =>
        /\ totalTaskCount = Len(tasks)
        /\ \A i \in 1..Len(tasks) : tasks[i].text # <<>>

====
